---- MODULE Spec2Model ----
(***************************************************************************)
(* A model of radfu, the host-side firmware update tool for the Renesas RA *)
(* serial boot firmware.  The module holds several state machines over one *)
(* set of variables, each with its own specification:                      *)
(*   SpecCodec  - the frame codec (src/src/rapacker.c) and the             *)
(*                unpack_with_error helper (src/src/radfu.c)               *)
(*   SpecBounds - the boundary arithmetic set_*_boundaries                 *)
(*                (src/src/radfu.c)                                        *)
(*   SpecOpen   - the connection handshake ra_open (src/src/raconnect.c)   *)
(*   SpecDlm    - the unauthenticated DLM transition ra_dlm_transit        *)
(*                (src/src/radfu.c)                                        *)
(*   SpecFlash  - the flash operations ra_erase, ra_read, ra_write,        *)
(*                ra_verify, ra_blank_check and ra_crc (src/src/radfu.c)   *)
(*   SpecCmd    - the single-command operations ra_dlm_auth,               *)
(*                ra_initialize, ra_get_area_info,                         *)
(*                ra_get_dlm (src/src/radfu.c) and ra_set_baudrate         *)
(*                (src/src/raconnect.c)                                    *)
(*   SpecLink   - all the operations above that talk to the device         *)
(*   SpecData   - the flash operations with data responses of any length   *)
(*   SpecMain   - one run of the command line tool, main (src/src/main.c), *)
(*                with ra_set_baudrate and ra_close (src/src/raconnect.c)  *)
(***************************************************************************)
EXTENDS Integers, Sequences, FiniteSets, TLC

VARIABLES
  pc,        \* position of the running operation
  c_in,      \* codec: arguments of the last ra_pack_pkt call
  c_pack,    \* codec: what that call returned (ret, errno)
  c_buf,     \* codec: the packet array handed to pack / unpack
  c_buflen,  \* codec: the buflen argument handed to unpack
  c_tamper,  \* codec: how the array was changed between pack and unpack
  c_un,      \* codec: what unpack_with_error left in its caller
  chip_layout, \* dev->chip_layout[MAX_AREAS]
  sel_area,  \* dev->sel_area
  b_in,      \* bounds: operation, start and size of the last set_*_boundaries
  b_out,     \* bounds: its return value and *end_out
  rx,        \* open: bytes the device has sent that the host has not read
  o_i,       \* open: loop counter i of ra_sync / ra_confirm
  o_rem,     \* open: remaining, the bytes ra_inquire still has to drain
  o_tx,      \* open: how many INQ frames, sync triples and 0x55 bytes went out
  o_obs,     \* open: what the handshake has received and decided so far
  o_ret,     \* open: ra_open's return value; 1 while it runs
  d_dest,    \* dlm: the argument dest_dlm of ra_dlm_transit
  d_cur,     \* dlm: current_dlm once the device has reported it
  d_sent,    \* dlm: the frames the host has sent, in order
  d_resp,    \* dlm: n and resp[] of the last ra_recv
  d_ret,     \* dlm: ra_dlm_transit's return value; 1 while it runs
  f_file,    \* flash: the parsed input file (data, has_addr, base_addr)
  f_call,    \* flash: the operation called and its arguments
  f_loc,     \* flash: the locals of the running operation
  f_buf,     \* flash: ra_read's buffer, the bytes read so far
  f_log,     \* flash: the frames the host has sent, with the answer to each
  f_w,       \* flash: the range and the data bytes of the last write
  f_ret,     \* flash: the operation's return value and failure report
  flash,     \* flash: the device's memory, erased (0xFF) outside its image
  dev_next,  \* flash: the address the device stores the next data frame at
  a_call,    \* command: the operation called and its arguments
  a_loc,     \* command: the locals of the running operation
  a_log,     \* command: the frames the host has sent, with the receive of each
  a_dev,     \* command: dev->noa, dev->baudrate and the speed of the host's port
  a_ret,     \* command: the operation's return value; 1 while it runs
  m_run      \* main: the options, the handle, the device's rate, the events

codecVars == <<c_in, c_pack, c_buf, c_buflen, c_tamper, c_un>>
boundsVars == <<chip_layout, sel_area, b_in, b_out>>

openVars == <<rx, o_i, o_rem, o_tx, o_obs, o_ret>>

dlmVars == <<d_dest, d_cur, d_sent, d_resp, d_ret>>

flashVars == <<f_file, f_call, f_loc, f_buf, f_log, f_w, f_ret, flash, dev_next>>

cmdVars == <<a_call, a_loc, a_log, a_dev, a_ret, m_run>>

vars == <<pc, codecVars, boundsVars, openVars, dlmVars, flashVars, cmdVars>>

(***************************************************************************)
(* Protocol constants, src/src/rapacker.h                                  *)
(***************************************************************************)
INQ_CMD == 0
ERA_CMD == 18
WRI_CMD == 19
REA_CMD == 21
DLM_CMD == 44
IDA_CMD == 48
SIG_CMD == 58
STATUS_ERR == 128
SOD_CMD == 1
SOD_ACK == 129
ETX == 3
MAX_DATA_LEN == 1024
MAX_PKT_LEN == MAX_DATA_LEN + 6

Byte == 0..255

\* uint16_t truncation of a size_t value
U16(x) == x % 65536

\* (x & mask) != 0 for a one-bit mask
BitSet(x, mask) == (x \div mask) % 2 = 1

\* buf[i] with C's 0-based index; the array ends at Len(buf)
At(buf, i) == IF i < Len(buf) THEN buf[i + 1] ELSE 0

\* the len bytes that start at C index off
Slice(buf, off, len) == [k \in 1..len |-> At(buf, off + k - 1)]

\* memcpy(dst, src, Len(src)): the first bytes of dst are replaced
Memcpy(dst, src) == src \o SubSeq(dst, Len(src) + 1, Len(dst))

(***************************************************************************)
(* ra_calc_sum, src/src/rapacker.c:52-64                                   *)
(***************************************************************************)
\* data[lo] + ... + data[hi] (1-based), the loop "sum += data[i]"; the range
\* is halved so that 1024 bytes do not need 1024 nested evaluations
RECURSIVE SumRange(_, _, _)
SumRange(data, lo, hi) ==
  IF lo > hi THEN 0
  ELSE IF lo = hi THEN data[lo]
  ELSE LET mid == (lo + hi) \div 2
       IN  SumRange(data, lo, mid) + SumRange(data, mid + 1, hi)

SumBytes(data, len) == SumRange(data, 1, len)

ra_calc_sum_ones(cmd, data, len) ==
  LET pkt_len == U16(len + 1)
      lnh == (pkt_len \div 256) % 256
      lnl == pkt_len % 256
      sum == lnh + lnl + cmd + SumBytes(data, len)
  IN  255 - (sum % 256)

ra_calc_sum(cmd, data, len) ==
  LET pkt_len == U16(len + 1)
      lnh == (pkt_len \div 256) % 256
      lnl == pkt_len % 256
      sum == lnh + lnl + cmd + SumBytes(data, len)
  IN  \* (~(sum - 1)) & 0xFF
      255 - ((sum - 1) % 256)

(***************************************************************************)
(* ra_pack_pkt, src/src/rapacker.c:66-94.  buf is the caller's array, of   *)
(* capacity buflen; the result holds the array after the call.             *)
(***************************************************************************)
ra_pack_pkt_sod(buf, buflen, cmd, data, len, ack) ==
  IF len > MAX_DATA_LEN
  THEN [ret |-> -1, errno |-> "EINVAL", buf |-> buf]
  ELSE LET pkt_len == len + 6 IN
       IF buflen < pkt_len
       THEN [ret |-> -1, errno |-> "ENOBUFS", buf |-> buf]
       ELSE LET data_len == U16(len + 1)
                lnh == (data_len \div 256) % 256
                lnl == data_len % 256
                sum == ra_calc_sum(cmd, data, len)
                frame == <<SOD_CMD, lnh, lnl, cmd>>
                           \o SubSeq(data, 1, len) \o <<sum, ETX>>
            IN  [ret |-> pkt_len, errno |-> "", buf |-> Memcpy(buf, frame)]

ra_pack_pkt_below_max(buf, buflen, cmd, data, len, ack) ==
  IF len >= MAX_DATA_LEN
  THEN [ret |-> -1, errno |-> "EINVAL", buf |-> buf]
  ELSE LET pkt_len == len + 6 IN
       IF buflen < pkt_len
       THEN [ret |-> -1, errno |-> "ENOBUFS", buf |-> buf]
       ELSE LET data_len == U16(len + 1)
                lnh == (data_len \div 256) % 256
                lnl == data_len % 256
                sum == ra_calc_sum(cmd, data, len)
                frame == <<IF ack THEN SOD_ACK ELSE SOD_CMD, lnh, lnl, cmd>>
                           \o SubSeq(data, 1, len) \o <<sum, ETX>>
            IN  [ret |-> pkt_len, errno |-> "", buf |-> Memcpy(buf, frame)]

ra_pack_pkt(buf, buflen, cmd, data, len, ack) ==
  IF len > MAX_DATA_LEN
  THEN [ret |-> -1, errno |-> "EINVAL", buf |-> buf]
  ELSE LET pkt_len == len + 6 IN
       IF buflen < pkt_len
       THEN [ret |-> -1, errno |-> "ENOBUFS", buf |-> buf]
       ELSE LET data_len == U16(len + 1)
                lnh == (data_len \div 256) % 256
                lnl == data_len % 256
                sum == ra_calc_sum(cmd, data, len)
                frame == <<IF ack THEN SOD_ACK ELSE SOD_CMD, lnh, lnl, cmd>>
                           \o SubSeq(data, 1, len) \o <<sum, ETX>>
            IN  [ret |-> pkt_len, errno |-> "", buf |-> Memcpy(buf, frame)]

(***************************************************************************)
(* ra_unpack_pkt, src/src/rapacker.c:96-160.  data, data_len and cmd are   *)
(* what the caller's out-parameters hold before the call (NullBuf / NULL   *)
(* for a null pointer); the result holds them after the call, and reads,   *)
(* the C indices of buf the call has read.                                 *)
(***************************************************************************)
NULL == -1
NullBuf == <<NULL>>

UnpackFail(e, rd, data, data_len, cmd) ==
  [ret |-> -1, errno |-> e, data |-> data, data_len |-> data_len,
   cmd |-> cmd, reads |-> rd]

ra_unpack_pkt_short(buf, buflen, data, data_len, cmd) ==
  IF buflen < 6 THEN UnpackFail("EINVAL", {}, data, data_len, cmd)
  ELSE IF At(buf, 0) # SOD_ACK
  THEN UnpackFail("EPROTO", {0}, data, data_len, cmd)
  ELSE
    LET lnh == At(buf, 1)
        lnl == At(buf, 2)
        res == At(buf, 3)
        pkt_len == U16(lnh * 256 + lnl)
    IN
    IF pkt_len < 1 THEN UnpackFail("EPROTO", 0..3, data, data_len, cmd)
    ELSE
      LET dlen == pkt_len - 1
          total_len == 4 + dlen + 2
      IN
      IF buflen + 1 < total_len
      THEN UnpackFail("EINVAL", 0..3, data, data_len, cmd)
      ELSE IF BitSet(res, STATUS_ERR)
      THEN IF dlen > 0 /\ data # NullBuf /\ data_len # NULL
           THEN UnpackFail("EIO", 0..(3 + dlen),
                           Memcpy(data, Slice(buf, 4, dlen)), dlen, cmd)
           ELSE UnpackFail("EIO", 0..3, data, data_len, cmd)
      ELSE
        LET sum == At(buf, 4 + dlen)
            etx == At(buf, 5 + dlen)
        IN
        IF etx # ETX
        THEN UnpackFail("EPROTO", (0..3) \cup {4 + dlen, 5 + dlen},
                        data, data_len, cmd)
        ELSE IF sum # ra_calc_sum(res, Slice(buf, 4, dlen), dlen)
        THEN UnpackFail("EBADMSG", 0..(5 + dlen), data, data_len, cmd)
        ELSE [ret |-> dlen, errno |-> "",
              data |-> IF data # NullBuf /\ dlen > 0
                       THEN Memcpy(data, Slice(buf, 4, dlen)) ELSE data,
              data_len |-> IF data_len # NULL THEN dlen ELSE data_len,
              cmd |-> IF cmd # NULL THEN res ELSE cmd,
              reads |-> 0..(5 + dlen)]

ra_unpack_pkt(buf, buflen, data, data_len, cmd) ==
  IF buflen < 6 THEN UnpackFail("EINVAL", {}, data, data_len, cmd)
  ELSE IF At(buf, 0) # SOD_ACK
  THEN UnpackFail("EPROTO", {0}, data, data_len, cmd)
  ELSE
    LET lnh == At(buf, 1)
        lnl == At(buf, 2)
        res == At(buf, 3)
        pkt_len == U16(lnh * 256 + lnl)
    IN
    IF pkt_len < 1 THEN UnpackFail("EPROTO", 0..3, data, data_len, cmd)
    ELSE
      LET dlen == pkt_len - 1
          total_len == 4 + dlen + 2
      IN
      IF buflen < total_len
      THEN UnpackFail("EINVAL", 0..3, data, data_len, cmd)
      ELSE IF BitSet(res, STATUS_ERR)
      THEN IF dlen > 0 /\ data # NullBuf /\ data_len # NULL
           THEN UnpackFail("EIO", 0..(3 + dlen),
                           Memcpy(data, Slice(buf, 4, dlen)), dlen, cmd)
           ELSE UnpackFail("EIO", 0..3, data, data_len, cmd)
      ELSE
        LET sum == At(buf, 4 + dlen)
            etx == At(buf, 5 + dlen)
        IN
        IF etx # ETX
        THEN UnpackFail("EPROTO", (0..3) \cup {4 + dlen, 5 + dlen},
                        data, data_len, cmd)
        ELSE IF sum # ra_calc_sum(res, Slice(buf, 4, dlen), dlen)
        THEN UnpackFail("EBADMSG", 0..(5 + dlen), data, data_len, cmd)
        ELSE [ret |-> dlen, errno |-> "",
              data |-> IF data # NullBuf /\ dlen > 0
                       THEN Memcpy(data, Slice(buf, 4, dlen)) ELSE data,
              data_len |-> IF data_len # NULL THEN dlen ELSE data_len,
              cmd |-> IF cmd # NULL THEN res ELSE cmd,
              reads |-> 0..(5 + dlen)]

(***************************************************************************)
(* unpack_with_error, src/src/radfu.c:50-80.  Its local cmd is declared    *)
(* without an initial value: cmd0 is what the stack slot holds at entry.   *)
(* dlen is initialised to 0.  mcu_error tells which branch printed the     *)
(* failure: "MCU error ..." (TRUE) or "unpack failed" (FALSE).             *)
(***************************************************************************)
unpack_with_error(buf, buflen, data, data_len, cmd0) ==
  LET r == ra_unpack_pkt(buf, buflen, data, 0, cmd0)
      dlen == r.data_len
      cmd == r.cmd
  IN  [ret |-> r.ret, errno |-> r.errno, data |-> r.data,
       data_len |-> IF data_len # NULL THEN dlen ELSE data_len,
       cmd |-> cmd, reads |-> r.reads,
       mcu_error |-> r.ret < 0 /\ BitSet(cmd, STATUS_ERR),
       err_code |-> IF r.ret < 0 /\ BitSet(cmd, STATUS_ERR)
                       /\ dlen > 0 /\ data # NullBuf
                    THEN At(r.data, 0) ELSE 0]

(***************************************************************************)
(* The area map and the boundary arithmetic, src/src/radfu.c:82-308.       *)
(* uint32_t arithmetic wraps.  TLC's integers are 32-bit signed, so a      *)
(* uint32_t is modelled as a number below 2^WordBits and every sum,        *)
(* difference and product is reduced modulo 2^WordBits, as the C           *)
(* arithmetic is modulo 2^32.                                              *)
(***************************************************************************)
MAX_AREAS == 4
WordBits == 29
Word == 2 ^ WordBits
U32(x) == x % Word

\* the area table of setup_test_device, src/tests/test_radfu.c:209-239:
\* code flash, data flash, config (no erase) and one unused all-zero entry
NoArea == [koa |-> 0, sad |-> 0, ead |-> 0, eau |-> 0, wau |-> 0, rau |-> 0,
           cau |-> 0]

TestLayout ==
  [i \in 0..(MAX_AREAS - 1) |->
     CASE i = 0 -> [koa |-> 0, sad |-> 0, ead |-> 524287, eau |-> 8192,
                    wau |-> 128, rau |-> 4, cau |-> 4]
       [] i = 1 -> [koa |-> 16, sad |-> 134217728, ead |-> 134225919,
                    eau |-> 64, wau |-> 4, rau |-> 4, cau |-> 4]
       [] i = 2 -> [koa |-> 32, sad |-> 16777216, ead |-> 16777727,
                    eau |-> 0, wau |-> 4, rau |-> 4, cau |-> 4]
       [] OTHER -> NoArea]

\* find_area_for_address, src/src/radfu.c:86-95: the first entry, in index
\* order, that is not all-zero and contains addr; -1 when there is none
find_area_for_address_open(layout, addr) ==
  LET hits == {i \in 0..(MAX_AREAS - 1) :
                 /\ ~(layout[i].sad = 0 /\ layout[i].ead = 0)
                 /\ addr >= layout[i].sad}
  IN  IF hits = {} THEN -1
      ELSE CHOOSE i \in hits : \A j \in hits : i <= j

find_area_for_address(layout, addr) ==
  LET hits == {i \in 0..(MAX_AREAS - 1) :
                 /\ ~(layout[i].sad = 0 /\ layout[i].ead = 0)
                 /\ addr >= layout[i].sad
                 /\ addr <= layout[i].ead}
  IN  IF hits = {} THEN -1
      ELSE CHOOSE i \in hits : \A j \in hits : i <= j

\* what a set_*_boundaries call leaves behind: its return value, *end_out
\* (end0, untouched, on failure) and dev->sel_area
BoundsResult(ret, end, area) == [ret |-> ret, end |-> end, sel_area |-> area]

\* set_erase_boundaries, src/src/radfu.c:132-172
set_erase_boundaries_whole(layout, sel0, start, size, end0) ==
  LET area == find_area_for_address(layout, start) IN
  IF area < 0 THEN BoundsResult(-1, end0, sel0)
  ELSE
    LET eau == layout[area].eau
        ead == layout[area].ead
    IN
    IF eau = 0 THEN BoundsResult(-1, end0, area)
    ELSE IF start % eau # 0 THEN BoundsResult(-1, end0, area)
    ELSE
      LET blocks == U32(size \div eau) + 1
          end == U32(U32(U32(blocks * eau) + start) - 1)
      IN
      IF end <= start THEN BoundsResult(-1, end0, area)
      ELSE IF end > ead THEN BoundsResult(-1, end0, area)
      ELSE BoundsResult(0, end, area)

set_erase_boundaries(layout, sel0, start, size, end0) ==
  LET area == find_area_for_address(layout, start) IN
  IF area < 0 THEN BoundsResult(-1, end0, sel0)
  ELSE
    LET eau == layout[area].eau
        ead == layout[area].ead
    IN
    IF eau = 0 THEN BoundsResult(-1, end0, area)
    ELSE IF start % eau # 0 THEN BoundsResult(-1, end0, area)
    ELSE
      LET blocks == U32(size + eau - 1) \div eau
          end == U32(U32(U32(blocks * eau) + start) - 1)
      IN
      IF end <= start THEN BoundsResult(-1, end0, area)
      ELSE IF end > ead THEN BoundsResult(-1, end0, area)
      ELSE BoundsResult(0, end, area)

\* set_read_boundaries, src/src/radfu.c:174-224
set_read_boundaries(layout, sel0, start, size, end0) ==
  LET area == find_area_for_address(layout, start) IN
  IF area < 0 THEN BoundsResult(-1, end0, sel0)
  ELSE
    LET rau == layout[area].rau
        ead == layout[area].ead
    IN
    IF rau = 0 THEN BoundsResult(-1, end0, area)
    ELSE IF start % rau # 0 THEN BoundsResult(-1, end0, area)
    ELSE
      LET end == U32(U32(start + size) - 1) IN
      IF end <= start /\ size > 1 THEN BoundsResult(-1, end0, area)
      ELSE IF end > ead THEN BoundsResult(-1, end0, area)
      ELSE IF U32(end + 1) % rau # 0
      THEN LET up == U32(U32(((end \div rau) + 1) * rau) - 1)
               aligned_end == IF up > ead THEN ead ELSE up
           IN  BoundsResult(0, aligned_end, area)
      ELSE BoundsResult(0, end, area)

\* set_write_boundaries, src/src/radfu.c:226-266
set_write_boundaries(layout, sel0, start, size, end0) ==
  LET area == find_area_for_address(layout, start) IN
  IF area < 0 THEN BoundsResult(-1, end0, sel0)
  ELSE
    LET wau == layout[area].wau
        ead == layout[area].ead
    IN
    IF wau = 0 THEN BoundsResult(-1, end0, area)
    ELSE IF start % wau # 0 THEN BoundsResult(-1, end0, area)
    ELSE
      LET blocks == U32(size + wau - 1) \div wau
          end == U32(U32(U32(blocks * wau) + start) - 1)
      IN
      IF end <= start THEN BoundsResult(-1, end0, area)
      ELSE IF end > ead THEN BoundsResult(-1, end0, area)
      ELSE BoundsResult(0, end, area)

\* set_crc_boundaries, src/src/radfu.c:268-308
set_crc_boundaries(layout, sel0, start, size, end0) ==
  LET area == find_area_for_address(layout, start) IN
  IF area < 0 THEN BoundsResult(-1, end0, sel0)
  ELSE
    LET cau == layout[area].cau
        ead == layout[area].ead
    IN
    IF cau = 0 THEN BoundsResult(-1, end0, area)
    ELSE IF start % cau # 0 THEN BoundsResult(-1, end0, area)
    ELSE
      LET blocks == U32(size + cau - 1) \div cau
          end == U32(U32(U32(blocks * cau) + start) - 1)
      IN
      IF end <= start /\ size > cau THEN BoundsResult(-1, end0, area)
      ELSE IF end > ead THEN BoundsResult(-1, end0, area)
      ELSE BoundsResult(0, end, area)

(***************************************************************************)
(* The values every machine's variables hold before it runs.  Each         *)
(* specification starts one machine and leaves the others at rest.         *)
(***************************************************************************)
CodecIdle ==
  /\ c_in = [cmd |-> 0, data |-> <<>>, ack |-> FALSE, cap |-> 0]
  /\ c_pack = [ret |-> 0, errno |-> ""]
  /\ c_buf = <<>>
  /\ c_buflen = 0
  /\ c_tamper = "none"
  /\ c_un = [ret |-> 0, errno |-> "", data |-> <<>>, data_len |-> 0, cmd |-> 0,
             reads |-> {}, mcu_error |-> FALSE, err_code |-> 0]

BoundsIdle ==
  /\ chip_layout = TestLayout
  /\ sel_area = 0
  /\ b_in = [op |-> "none", start |-> 0, size |-> 0]
  /\ b_out = BoundsResult(0, 0, 0)

OpenIdle ==
  /\ rx = <<>>
  /\ o_i = 0
  /\ o_rem = 0
  /\ o_tx = [inq |-> 0, sync |-> 0, confirm |-> 0]
  /\ o_obs = [reply |-> "none", first |-> NULL, connected |-> FALSE,
              sync_ok |-> FALSE, boot |-> NULL, bad_confirm |-> FALSE,
              drain_reads |-> 0]
  /\ o_ret = 1

DlmIdle ==
  /\ d_dest = 0
  /\ d_cur = NULL
  /\ d_sent = <<>>
  /\ d_resp = [n |-> 0, buf |-> <<>>]
  /\ d_ret = 1

NoReport == [kind |-> "none", addr |-> 0, flash |-> 0, file |-> 0]

NoLocals ==
  [start |-> 0, size |-> 0, end |-> 0, i |-> 0, nr_chunks |-> 0,
   current_addr |-> 0, offset |-> 0, total |-> 0]

NoWrite == [start |-> 0, end |-> 0, data |-> <<>>, done |-> FALSE]

FlashIdle ==
  /\ f_file = [data |-> <<>>, has_addr |-> FALSE, base_addr |-> 0]
  /\ f_call = [op |-> "none", start |-> 0, size |-> 0, verify |-> FALSE]
  /\ f_loc = NoLocals
  /\ f_buf = <<>>
  /\ f_log = <<>>
  /\ f_w = NoWrite
  /\ f_ret = [ret |-> 1, report |-> NoReport]
  /\ flash = [mem |-> <<>>, keeps |-> TRUE]
  /\ dev_next = 0

NoCall ==
  [op |-> "none", dest |-> 0, key |-> <<>>, baudrate |-> 0, openssl |-> FALSE]

NoCmdLocals == [current_dlm |-> NULL, i |-> 0, challenge |-> <<>>]

\* ra_dev_init leaves noa at 0 and baudrate at 9600, ra_open sets the port
\* to B9600; src/src/raconnect.c:44, 120
FreshDev == [noa |-> 0, baudrate |-> 9600, speed |-> 9600]

NoOptions ==
  [uart_mode |-> FALSE, baudrate |-> 0, use_auth |-> FALSE, bank |-> -1,
   area_koa |-> -1, cmd |-> "none"]

NoRun == [opt |-> NoOptions, fd |-> -1, dev_rate |-> 9600, trace |-> <<>>]

CmdIdle ==
  /\ a_call = NoCall
  /\ a_loc = NoCmdLocals
  /\ a_log = <<>>
  /\ a_dev = FreshDev
  /\ a_ret = 1
  /\ m_run = NoRun

(***************************************************************************)
(* The bounds machine: one set_*_boundaries call on a chosen (start, size) *)
(* against the area table.                                                 *)
(***************************************************************************)
\* the largest number of alignment units a chosen size is away from a
\* multiple of the unit, and the largest number of units it spans
MaxOff == 1
MaxUnits == 2

Units(a) == {a.eau, a.wau, a.rau, a.cau} \ {0}

Offs == (0 - MaxOff)..MaxOff

Starts ==
  LET near(a) == {a.sad + k * u + o : k \in 0..MaxUnits, u \in Units(a), o \in 0..MaxOff}
                   \cup {a.ead + 1 - k * u : k \in 0..MaxUnits, u \in Units(a)}
                   \cup {a.ead}
  IN  {x \in UNION {near(chip_layout[i]) : i \in 0..(MAX_AREAS - 1)} :
         x >= 0 /\ x < Word}

Sizes ==
  LET span(a) == {k * u + o : k \in 0..MaxUnits, u \in Units(a), o \in Offs}
                   \cup {a.ead - a.sad + 1 + o - k * u :
                           k \in 0..MaxUnits, u \in Units(a), o \in Offs}
                   \cup {Word - k * u + o : k \in 0..MaxUnits, u \in Units(a), o \in Offs}
  IN  {x \in UNION {span(chip_layout[i]) : i \in 0..(MAX_AREAS - 1)} :
         x >= 0 /\ x < Word}

BoundsInit ==
  /\ pc = "b_idle"
  /\ BoundsIdle
  /\ CodecIdle
  /\ OpenIdle
  /\ DlmIdle
  /\ FlashIdle
  /\ CmdIdle

BoundsCall(op, start, size, r) ==
  /\ b_in' = [op |-> op, start |-> start, size |-> size]
  /\ b_out' = r
  /\ sel_area' = r.sel_area
  /\ pc' = "b_done"
  /\ UNCHANGED <<chip_layout, codecVars, openVars, dlmVars, flashVars, cmdVars>>

\* uint32_t end; whatever the stack holds
StackWords == {0, Word - 1}

EraseBounds ==
  /\ pc = "b_idle"
  /\ \E start \in Starts, size \in Sizes, end0 \in StackWords :
       BoundsCall("erase", start, size,
                  set_erase_boundaries(chip_layout, sel_area, start, size, end0))

ReadBounds ==
  /\ pc = "b_idle"
  /\ \E start \in Starts, size \in Sizes, end0 \in StackWords :
       BoundsCall("read", start, size,
                  set_read_boundaries(chip_layout, sel_area, start, size, end0))

WriteBounds ==
  /\ pc = "b_idle"
  /\ \E start \in Starts, size \in Sizes, end0 \in StackWords :
       BoundsCall("write", start, size,
                  set_write_boundaries(chip_layout, sel_area, start, size, end0))

CrcBounds ==
  /\ pc = "b_idle"
  /\ \E start \in Starts, size \in Sizes, end0 \in StackWords :
       BoundsCall("crc", start, size,
                  set_crc_boundaries(chip_layout, sel_area, start, size, end0))

BoundsNext == EraseBounds \/ ReadBounds \/ WriteBounds \/ CrcBounds

SpecBounds == BoundsInit /\ [][BoundsNext]_vars

(***************************************************************************)
(* The codec machine: one ra_pack_pkt call on chosen arguments, an         *)
(* optional change of the array (a corrupted or cut-short transfer), then  *)
(* one unpack_with_error call on the array.                                *)
(***************************************************************************)
MaxData == 2
PayloadBytes == {0, 3, 208}
LongLens == {9, 255, MAX_DATA_LEN - 1, MAX_DATA_LEN, MAX_DATA_LEN + 1}
FillByte == 170

RECURSIVE SeqsUpTo(_, _)
SeqsUpTo(S, n) ==
  IF n = 0 THEN {<<>>}
  ELSE LET shorter == SeqsUpTo(S, n - 1)
       IN  shorter \cup {Append(s, b) : s \in shorter, b \in S}

Pattern(n) == [i \in 1..n |-> (7 * i + 1) % 256]

Payloads == SeqsUpTo(PayloadBytes, MaxData) \cup {Pattern(n) : n \in LongLens}

Cmds == {INQ_CMD, WRI_CMD, 127, STATUS_ERR, STATUS_ERR + ERA_CMD}

TamperVals == {0, 1, 3, 129, 255}

\* garbage left in an uninitialised uint8_t
StackBytes == {0, WRI_CMD, STATUS_ERR}

CodecInit ==
  /\ pc = "c_idle"
  /\ CodecIdle
  /\ BoundsIdle
  /\ OpenIdle
  /\ DlmIdle
  /\ FlashIdle
  /\ CmdIdle

\* pkt_len = ra_pack_pkt(buf, sizeof(buf), cmd, data, len, ack)
PackCall ==
  /\ pc = "c_idle"
  /\ \E cmd \in Cmds, data \in Payloads, ack \in BOOLEAN, slack \in {-1, 0, 2} :
       LET len == Len(data)
           cap == len + 6 + slack
           r == ra_pack_pkt([i \in 1..cap |-> FillByte], cap, cmd, data, len, ack)
       IN  /\ c_in' = [cmd |-> cmd, data |-> data, ack |-> ack, cap |-> cap]
           /\ c_pack' = [ret |-> r.ret, errno |-> r.errno]
           /\ c_buf' = r.buf
           /\ c_buflen' = IF r.ret < 0 THEN 0 ELSE r.ret
           /\ pc' = IF r.ret < 0 THEN "c_done" ELSE "c_packed"
  /\ UNCHANGED <<c_tamper, c_un, boundsVars, openVars, dlmVars, flashVars, cmdVars>>

\* one byte of the array differs from what was packed
TamperByte ==
  /\ pc = "c_packed"
  /\ c_tamper = "none"
  /\ \E i \in {0, 1, 2, 3, 4, c_buflen - 2, c_buflen - 1}, v \in TamperVals :
       /\ i < c_buflen
       /\ v # At(c_buf, i)
       /\ c_buf' = [c_buf EXCEPT ![i + 1] = v]
  /\ c_tamper' = "byte"
  /\ UNCHANGED <<pc, c_in, c_pack, c_buflen, c_un, boundsVars, openVars, dlmVars, flashVars, cmdVars>>

\* the caller passes a smaller buflen than the frame needs
TamperLen ==
  /\ pc = "c_packed"
  /\ c_tamper = "none"
  /\ \E n \in {3, 5, c_buflen - 1} :
       /\ n >= 0
       /\ n < c_buflen
       /\ c_buflen' = n
  /\ c_tamper' = "len"
  /\ UNCHANGED <<pc, c_in, c_pack, c_buf, c_un, boundsVars, openVars, dlmVars, flashVars, cmdVars>>

\* ret = unpack_with_error(buf, n, data, &data_len, context), with
\* uint8_t data[MAX_DATA_LEN]
UnpackCall ==
  /\ pc = "c_packed"
  /\ \E cmd0 \in StackBytes :
       LET u == unpack_with_error(c_buf, c_buflen,
                                  [i \in 1..MAX_DATA_LEN |-> FillByte], 0, cmd0)
       IN  c_un' = [u EXCEPT !.data = SubSeq(u.data, 1, u.data_len)]
  /\ pc' = "c_unpacked"
  /\ UNCHANGED <<c_in, c_pack, c_buf, c_buflen, c_tamper, boundsVars, openVars, dlmVars, flashVars, cmdVars>>

CodecNext == PackCall \/ TamperByte \/ TamperLen \/ UnpackCall

SpecCodec == CodecInit /\ [][CodecNext]_vars

(***************************************************************************)
(* The connection handshake, src/src/raconnect.c.  The device is the       *)
(* environment: after each transmission it may stay silent or answer with  *)
(* any of a few byte strings, which are appended to rx.                    *)
(***************************************************************************)
SYNC_BYTE == 0
GENERIC_CODE == 85
BOOT_CODE_M4 == 195
BOOT_CODE_M33 == 198
BOOT_CODE_M85 == 197
MAX_TRIES == 20
DRAIN_SIZE == 256

Min(a, b) == IF a < b THEN a ELSE b

\* ra_recv(dev, buf, len, timeout), src/src/raconnect.c:189-227: the ways a
\* call can end.  n = -1: poll or read failed.  n = 0: nothing arrived within
\* the timeout.  Otherwise the call returns the bytes that have arrived, up
\* to len; it returns fewer than are on their way when the next byte is not
\* there within the 20 ms continuation timeout.
ra_recv(buf, len) ==
  {[n |-> -1, got |-> <<>>, rest |-> buf]}
    \cup (IF buf = <<>> \/ len = 0
          THEN {[n |-> 0, got |-> <<>>, rest |-> buf]}
          ELSE {[n |-> k, got |-> SubSeq(buf, 1, k),
                 rest |-> SubSeq(buf, k + 1, Len(buf))] :
                  k \in {1, Min(len, Len(buf))}})

\* ra_inquire's verdict on the first byte, src/src/raconnect.c:263-270
inquire_first(r) ==
  IF r.n < 0 THEN "error"
  ELSE IF r.n = 0 \/ r.got[1] = SYNC_BYTE THEN "not_connected"
  ELSE "connected"

\* remaining bytes after LNH, LNL, RES: data + SUM + ETX,
\* src/src/raconnect.c:277-279
drain_remaining(lnh, lnl) ==
  LET data_len == U16(lnh * 256 + lnl)
  IN  (IF data_len > 1 THEN data_len - 1 ELSE 0) + 2

\* ra_sync's test of one attempt, src/src/raconnect.c:239-243
sync_echoed(r) == r.n = 1 /\ r.got[1] = SYNC_BYTE

\* ra_confirm's test of one reply byte, src/src/raconnect.c:306-317
boot_code_any(resp) == TRUE

boot_code_ok(resp) == resp \in {BOOT_CODE_M4, BOOT_CODE_M33, BOOT_CODE_M85}

\* the loop conditions "i < dev->max_tries" of ra_sync and ra_confirm,
\* src/src/raconnect.c:235 and :300
sync_more(i, max_tries) == i < max_tries

confirm_more_off_by_one(i, max_tries) == i <= max_tries

confirm_more(i, max_tries) == i < max_tries

\* what ra_open does with ra_sync's return value, src/src/raconnect.c:145-149
ra_open_after_sync_unchecked(ret) == "o_confirm"

ra_open_after_sync(ret) == IF ret < 0 THEN "o_closed" ELSE "o_confirm"

\* what ra_open does with ra_confirm's return value,
\* src/src/raconnect.c:150-157
ra_open_after_confirm(ret) == IF ret < 0 THEN "o_closed" ELSE "o_done"

\* ra_open's return value at each of its exits
OpenRet(where) ==
  CASE where = "o_closed" -> -1
    [] where = "o_done" -> 0
    [] OTHER -> 1

\* the largest number of full drain buffers a device frame fills
MaxDrainBufs == 2

\* a response frame as the device emits it: SOD 0x81, RES = INQ, len bytes
DeviceFrame(cmd, data) ==
  ra_pack_pkt([i \in 1..(Len(data) + 6) |-> 0], Len(data) + 6, cmd, data,
              Len(data), TRUE).buf

InqFrameLens ==
  {0, 1} \cup {k * DRAIN_SIZE - 2 + o : k \in 1..MaxDrainBufs, o \in {-1, 0, 1}}

\* what the device may answer to the INQ frame: nothing, the echo of its
\* zero bytes, a response frame, or something that is no frame
InqReplies ==
  {[kind |-> "none", bytes |-> <<>>],
   [kind |-> "echo", bytes |-> <<SYNC_BYTE>>],
   [kind |-> "echo", bytes |-> <<SYNC_BYTE, SYNC_BYTE>>],
   [kind |-> "junk", bytes |-> <<255>>],
   [kind |-> "junk", bytes |-> <<SOD_ACK, 0>>]}
    \cup {[kind |-> "frame", bytes |-> DeviceFrame(INQ_CMD, Pattern(n))] :
            n \in InqFrameLens}

\* the device answers a sync triple or a 0x55 only while fewer than
\* MaxPending of its earlier bytes wait unread in the host's input buffer
MaxPending == 1

Silent(buf, replies) == IF Len(buf) < MaxPending THEN replies ELSE {<<>>}

SyncReplies == {<<>>, <<SYNC_BYTE>>, <<255>>}

ConfirmReplies ==
  {<<>>, <<BOOT_CODE_M4>>, <<BOOT_CODE_M33>>, <<BOOT_CODE_M85>>,
   <<SYNC_BYTE>>, <<GENERIC_CODE>>}

\* ra_open up to the flush (src/src/raconnect.c:79-128) has succeeded
OpenInit ==
  /\ pc = "o_inquire"
  /\ OpenIdle
  /\ CodecIdle
  /\ BoundsIdle
  /\ DlmIdle
  /\ FlashIdle
  /\ CmdIdle

OpenRest == UNCHANGED <<codecVars, boundsVars, dlmVars, flashVars, cmdVars>>

\* ra_inquire: pack and send the INQ frame, src/src/raconnect.c:255-260
InqSend ==
  /\ pc = "o_inquire"
  /\ \E sent \in BOOLEAN :
       IF sent
       THEN \E reply \in InqReplies :
              /\ rx' = rx \o reply.bytes
              /\ o_tx' = [o_tx EXCEPT !.inq = @ + 1]
              /\ o_obs' = [o_obs EXCEPT !.reply = reply.kind]
              /\ pc' = "o_inq_first"
              /\ UNCHANGED o_ret
       ELSE /\ pc' = "o_closed"
            /\ o_ret' = OpenRet("o_closed")
            /\ UNCHANGED <<rx, o_tx, o_obs>>
  /\ UNCHANGED <<o_i, o_rem>>
  /\ OpenRest

\* ra_inquire: the first byte, src/src/raconnect.c:262-270; then ra_open's
\* branch on already_connected, src/src/raconnect.c:131-140
InqFirst ==
  /\ pc = "o_inq_first"
  /\ \E r \in ra_recv(rx, 1) :
       LET v == inquire_first(r) IN
       /\ rx' = r.rest
       /\ o_obs' = [o_obs EXCEPT !.first = IF r.n = 1 THEN r.got[1] ELSE NULL]
       /\ pc' = CASE v = "error" -> "o_closed"
                  [] v = "not_connected" -> "o_sync"
                  [] OTHER -> "o_inq_hdr"
       /\ o_ret' = OpenRet(pc')
  /\ o_i' = 0
  /\ UNCHANGED <<o_rem, o_tx>>
  /\ OpenRest

\* ra_inquire: the header LNH, LNL, RES, src/src/raconnect.c:272-279
InqHeader ==
  /\ pc = "o_inq_hdr"
  /\ \E r \in ra_recv(rx, 3) :
       /\ rx' = r.rest
       /\ IF r.n < 3
          THEN /\ pc' = "o_closed"
               /\ o_ret' = OpenRet("o_closed")
               /\ UNCHANGED o_rem
          ELSE /\ o_rem' = drain_remaining(r.got[1], r.got[2])
               /\ pc' = "o_inq_drain"
               /\ UNCHANGED o_ret
  /\ UNCHANGED <<o_i, o_tx, o_obs>>
  /\ OpenRest

\* ra_inquire: one turn of the drain loop, src/src/raconnect.c:281-289
InqDrain ==
  /\ pc = "o_inq_drain"
  /\ o_rem > 0
  /\ \E r \in ra_recv(rx, Min(o_rem, DRAIN_SIZE)) :
       /\ rx' = r.rest
       /\ IF r.n <= 0
          THEN /\ pc' = "o_inq_ret"
               /\ UNCHANGED <<o_rem, o_obs>>
          ELSE /\ o_rem' = o_rem - r.n
               /\ o_obs' = [o_obs EXCEPT !.drain_reads = Min(@ + 1, MaxDrainBufs + 1)]
               /\ UNCHANGED pc
  /\ UNCHANGED <<o_i, o_tx, o_ret>>
  /\ OpenRest

\* ra_inquire returns 1 and ra_open returns 0, src/src/raconnect.c:291-292
\* and :138-139, :157
InqConnected ==
  /\ \/ pc = "o_inq_drain" /\ o_rem = 0
     \/ pc = "o_inq_ret"
  /\ o_obs' = [o_obs EXCEPT !.connected = TRUE]
  /\ pc' = "o_done"
  /\ o_ret' = OpenRet("o_done")
  /\ UNCHANGED <<rx, o_i, o_rem, o_tx>>
  /\ OpenRest

\* ra_sync: one turn of the loop, src/src/raconnect.c:235-244
SyncTry ==
  /\ pc = "o_sync"
  /\ sync_more(o_i, MAX_TRIES)
  /\ \E written \in BOOLEAN :
       IF written
       THEN \E reply \in Silent(rx, SyncReplies) : \E r \in ra_recv(rx \o reply, 1) :
              /\ rx' = r.rest
              /\ o_tx' = [o_tx EXCEPT !.sync = @ + 1]
              /\ IF sync_echoed(r)
                 THEN /\ o_obs' = [o_obs EXCEPT !.sync_ok = TRUE]
                      /\ pc' = ra_open_after_sync(0)
                      /\ o_i' = 0
                 ELSE /\ o_i' = o_i + 1
                      /\ UNCHANGED <<pc, o_obs>>
       ELSE /\ o_i' = o_i + 1
            /\ UNCHANGED <<pc, rx, o_tx, o_obs>>
  /\ UNCHANGED <<o_rem, o_ret>>
  /\ OpenRest

\* ra_sync gives up, src/src/raconnect.c:246-247, and ra_open reacts
SyncFail ==
  /\ pc = "o_sync"
  /\ ~sync_more(o_i, MAX_TRIES)
  /\ pc' = ra_open_after_sync(-1)
  /\ o_ret' = OpenRet(pc')
  /\ o_i' = 0
  /\ UNCHANGED <<rx, o_rem, o_tx, o_obs>>
  /\ OpenRest

\* ra_confirm: one turn of the loop, src/src/raconnect.c:300-325
ConfirmTry ==
  /\ pc = "o_confirm"
  /\ confirm_more(o_i, MAX_TRIES)
  /\ \E written \in BOOLEAN :
       IF written
       THEN \E reply \in Silent(rx, ConfirmReplies) : \E r \in ra_recv(rx \o reply, 1) :
              /\ rx' = r.rest
              /\ o_tx' = [o_tx EXCEPT !.confirm = @ + 1]
              /\ IF r.n = 1 /\ boot_code_ok(r.got[1])
                 THEN /\ o_obs' = [o_obs EXCEPT !.boot = r.got[1]]
                      /\ pc' = ra_open_after_confirm(0)
                      /\ o_ret' = OpenRet(pc')
                      /\ UNCHANGED o_i
                 ELSE /\ o_obs' = [o_obs EXCEPT !.bad_confirm = @ \/ r.n = 1]
                      /\ o_i' = o_i + 1
                      /\ UNCHANGED <<pc, o_ret>>
       ELSE /\ o_i' = o_i + 1
            /\ UNCHANGED <<pc, rx, o_tx, o_obs, o_ret>>
  /\ UNCHANGED o_rem
  /\ OpenRest

\* ra_confirm gives up, src/src/raconnect.c:327-328, and ra_open reacts
ConfirmFail ==
  /\ pc = "o_confirm"
  /\ ~confirm_more(o_i, MAX_TRIES)
  /\ pc' = ra_open_after_confirm(-1)
  /\ o_ret' = OpenRet(pc')
  /\ UNCHANGED <<rx, o_i, o_rem, o_tx, o_obs>>
  /\ OpenRest

OpenNext ==
  \/ InqSend
  \/ InqFirst
  \/ InqHeader
  \/ InqDrain
  \/ InqConnected
  \/ SyncTry
  \/ SyncFail
  \/ ConfirmTry
  \/ ConfirmFail

SpecOpen == OpenInit /\ [][OpenNext]_vars

(***************************************************************************)
(* ra_dlm_transit, src/src/radfu.c:1448-1529.  The device is the           *)
(* environment: it reports any DLM state and answers the transit request   *)
(* with an OK frame, an error frame or nothing.                            *)
(***************************************************************************)
DLM_TRANSIT_CMD == 113
DLM_STATE_CM == 1
DLM_STATE_SSD == 2
DLM_STATE_NSECSD == 3
DLM_STATE_DPL == 4
DLM_STATE_LCK_DBG == 5
DLM_STATE_LCK_BOOT == 6
DLM_STATE_RMA_REQ == 7
DLM_STATE_RMA_ACK == 8

DlmStates == DLM_STATE_CM..DLM_STATE_RMA_ACK

\* the transitions the header documents for ra_dlm_transit,
\* src/src/radfu.h:165-170
AllowedTransitions ==
  {<<DLM_STATE_CM, DLM_STATE_SSD>>,
   <<DLM_STATE_SSD, DLM_STATE_NSECSD>>,
   <<DLM_STATE_SSD, DLM_STATE_DPL>>,
   <<DLM_STATE_NSECSD, DLM_STATE_DPL>>,
   <<DLM_STATE_DPL, DLM_STATE_LCK_DBG>>,
   <<DLM_STATE_DPL, DLM_STATE_LCK_BOOT>>,
   <<DLM_STATE_LCK_DBG, DLM_STATE_LCK_BOOT>>}

\* sizeof(resp) and sizeof(resp_data) in ra_dlm_transit
DLM_RESP_SIZE == 32
DLM_RESP_DATA_SIZE == 16

ERR_FLOW == 195
ERR_PROT == 218

\* the host's frame: ra_pack_pkt(pkt, sizeof(pkt), cmd, data, len, false)
HostFrame(cmd, data) ==
  LET r == ra_pack_pkt([i \in 1..MAX_PKT_LEN |-> 0], MAX_PKT_LEN, cmd, data,
                       Len(data), FALSE)
  IN  [ret |-> r.ret, bytes |-> SubSeq(r.buf, 1, IF r.ret < 0 THEN 0 ELSE r.ret)]

\* the dest_dlm values a caller passes: the eight states and one code that
\* is no state
DlmDests == DlmStates \cup {0}

DlmStateReplies ==
  {<<>>, DeviceFrame(DLM_CMD, <<>>),
   DeviceFrame(DLM_CMD + STATUS_ERR, <<ERR_FLOW>>)}
    \cup {DeviceFrame(DLM_CMD, <<s>>) : s \in DlmStates}

DlmTransitReplies ==
  {<<>>, DeviceFrame(DLM_TRANSIT_CMD, <<0>>),
   SubSeq(DeviceFrame(DLM_TRANSIT_CMD, <<0>>), 1, 6),
   DeviceFrame(DLM_TRANSIT_CMD + STATUS_ERR, <<ERR_PROT>>)}

\* ra_recv(dev, resp, sizeof(resp), timeout) into resp[]
DlmRecv(reply) ==
  {[n |-> -1, buf |-> <<>>],
   [n |-> Min(Len(reply), DLM_RESP_SIZE),
    buf |-> SubSeq(reply, 1, Min(Len(reply), DLM_RESP_SIZE))]}

DlmInit ==
  /\ pc = "d_start"
  /\ d_dest \in DlmDests
  /\ d_cur = NULL
  /\ d_sent = <<>>
  /\ d_resp = [n |-> 0, buf |-> <<>>]
  /\ d_ret = 1
  /\ CodecIdle
  /\ BoundsIdle
  /\ OpenIdle
  /\ FlashIdle
  /\ CmdIdle

DlmRest == UNCHANGED <<codecVars, boundsVars, openVars, flashVars, cmdVars>>

DlmReturn(ret) ==
  /\ pc' = "d_done"
  /\ d_ret' = ret

\* the DLM state request and its response, src/src/radfu.c:1456-1468
DlmQuery ==
  /\ pc = "d_start"
  /\ LET pkt == HostFrame(DLM_CMD, <<>>) IN
     \E sent \in BOOLEAN :
       IF pkt.ret < 0 \/ ~sent
       THEN /\ DlmReturn(-1)
            /\ UNCHANGED <<d_sent, d_resp>>
       ELSE \E reply \in DlmStateReplies : \E r \in DlmRecv(reply) :
              /\ d_sent' = Append(d_sent, pkt.bytes)
              /\ d_resp' = r
              /\ IF r.n < 7
                 THEN DlmReturn(-1)
                 ELSE pc' = "d_state" /\ UNCHANGED d_ret
  /\ UNCHANGED <<d_dest, d_cur>>
  /\ DlmRest

\* decode the state, compare, and send the transit request,
\* src/src/radfu.c:1470-1509
DlmRequest ==
  /\ pc = "d_state"
  /\ \E cmd0 \in StackBytes :
       LET u == unpack_with_error(d_resp.buf, d_resp.n,
                                  [i \in 1..DLM_RESP_DATA_SIZE |-> 0], 0, cmd0)
       IN
       IF u.ret < 0 \/ u.data_len < 1
       THEN /\ DlmReturn(-1)
            /\ UNCHANGED <<d_cur, d_sent, d_resp>>
       ELSE LET current_dlm == u.data[1] IN
            /\ d_cur' = current_dlm
            /\ IF current_dlm = d_dest
               THEN /\ DlmReturn(0)
                    /\ UNCHANGED <<d_sent, d_resp>>
               ELSE LET pkt == HostFrame(DLM_TRANSIT_CMD, <<current_dlm, d_dest>>)
                    IN
                    \E sent \in BOOLEAN :
                      IF pkt.ret < 0 \/ ~sent
                      THEN /\ DlmReturn(-1)
                           /\ UNCHANGED <<d_sent, d_resp>>
                      ELSE \E reply \in DlmTransitReplies :
                           \E r \in DlmRecv(reply) :
                             /\ d_sent' = Append(d_sent, pkt.bytes)
                             /\ d_resp' = r
                             /\ pc' = "d_transit"
                             /\ UNCHANGED d_ret
  /\ UNCHANGED d_dest
  /\ DlmRest

\* what ra_dlm_transit returns when fewer than 7 bytes answer the transit
\* request, src/src/radfu.c:1511-1519
transit_no_reply_fails(dest_dlm) == -1

transit_no_reply(dest_dlm) == IF dest_dlm = DLM_STATE_LCK_BOOT THEN 0 ELSE -1

\* the answer to the transit request, src/src/radfu.c:1511-1528
DlmResult ==
  /\ pc = "d_transit"
  /\ \E cmd0 \in StackBytes :
       IF d_resp.n < 7
       THEN DlmReturn(transit_no_reply(d_dest))
       ELSE LET u == unpack_with_error(d_resp.buf, d_resp.n,
                                       [i \in 1..DLM_RESP_DATA_SIZE |-> 0], 0, cmd0)
            IN  DlmReturn(IF u.ret < 0 THEN -1 ELSE 0)
  /\ UNCHANGED <<d_dest, d_cur, d_sent, d_resp>>
  /\ DlmRest

DlmNext ==
  \/ DlmQuery
  \/ DlmRequest
  \/ DlmResult

SpecDlm == DlmInit /\ [][DlmNext]_vars

(***************************************************************************)
(* The flash operations of src/src/radfu.c: ra_erase, ra_read, ra_verify,  *)
(* ra_blank_check, ra_write and ra_crc.  The device is the environment: a  *)
(* flash that stores what it is sent and answers a request with the bytes  *)
(* of the requested range, with an error frame, or not at all.             *)
(***************************************************************************)
CHUNK_SIZE == 1024
CRC_CMD == 24
ERASED == 255
ERR_ADDR == 208

\* uint32_to_be / be_to_uint32, src/src/rapacker.h:47-62
uint32_to_be(v) ==
  <<(v \div 16777216) % 256, (v \div 65536) % 256, (v \div 256) % 256, v % 256>>

be_to_uint32(b, off) ==
  At(b, off) * 16777216 + At(b, off + 1) * 65536 + At(b, off + 2) * 256
    + At(b, off + 3)

\* the byte the device holds at address a: mem maps the addresses that
\* were programmed or erased to their bytes, every other byte is erased
FlashAt(fl, a) == IF a \in DOMAIN fl.mem THEN fl.mem[a] ELSE ERASED

\* the bytes the device holds at lo..hi
FlashRange(fl, lo, hi) == [k \in 1..(hi - lo + 1) |-> FlashAt(fl, lo + k - 1)]

\* the device's memory after it has stored data at addr
FlashStore(fl, addr, data) ==
  [fl EXCEPT !.mem = [a \in DOMAIN fl.mem \cup addr..(addr + Len(data) - 1) |->
                        IF a >= addr /\ a < addr + Len(data)
                        THEN data[a - addr + 1]
                        ELSE fl.mem[a]]]

\* the device's memory after it has erased lo..hi
FlashErase(fl, lo, hi) ==
  [fl EXCEPT !.mem = [a \in DOMAIN fl.mem |->
                        IF a >= lo /\ a <= hi THEN ERASED ELSE fl.mem[a]]]

\* the frame a data chunk travels in: ra_pack_pkt(pkt, sizeof(pkt), WRI_CMD,
\* chunk, chunk_size, true), src/src/radfu.c:1233
DataFrame(cmd, data) ==
  LET r == ra_pack_pkt([i \in 1..MAX_PKT_LEN |-> 0], MAX_PKT_LEN, cmd, data,
                       Len(data), TRUE)
  IN  [ret |-> r.ret, bytes |-> SubSeq(r.buf, 1, IF r.ret < 0 THEN 0 ELSE r.ret)]

\* the payload of a frame the host has sent
FramePayload(f) == SubSeq(f, 5, Len(f) - 2)

\* what may happen to a frame: ra_send fails ("unsent"), or the device
\* answers "ok" (the status frame, or for REA the bytes of the requested
\* range), "err" (an error frame), "short" (six bytes of the status frame
\* before the timeout) or "none" (no byte at all)
Answers == {"ok", "err", "short", "none", "unsent"}

\* answers to REA whose payload is not of the requested length: one byte
\* "fewer", or one byte "more" where the response buffer has room for it
LenAnswers == {"fewer", "more"}

DeviceAnswer(kind, fl, f) ==
  LET cmd == f[4]
      pl == FramePayload(f)
  IN  CASE kind = "none" -> <<>>
        [] kind = "short" -> SubSeq(DeviceFrame(cmd, <<0>>), 1, 6)
        [] kind = "err" -> DeviceFrame(cmd + STATUS_ERR, <<ERR_ADDR>>)
        [] cmd = REA_CMD /\ kind = "fewer" ->
             DeviceFrame(REA_CMD,
                         FlashRange(fl, be_to_uint32(pl, 0),
                                    IF be_to_uint32(pl, 4) > be_to_uint32(pl, 0)
                                    THEN be_to_uint32(pl, 4) - 1
                                    ELSE be_to_uint32(pl, 0)))
        [] cmd = REA_CMD /\ kind = "more" ->
             DeviceFrame(REA_CMD,
                         FlashRange(fl, be_to_uint32(pl, 0),
                                    Min(be_to_uint32(pl, 4) + 1,
                                        be_to_uint32(pl, 0) + CHUNK_SIZE - 1)))
        [] cmd = REA_CMD ->
             DeviceFrame(REA_CMD,
                         FlashRange(fl, be_to_uint32(pl, 0), be_to_uint32(pl, 4)))
        [] cmd = CRC_CMD -> DeviceFrame(CRC_CMD, <<0, 0, 0, 0>>)
        [] OTHER -> DeviceFrame(cmd, <<0>>)

\* n = ra_recv(dev, resp, size, timeout); if (n < 7) ...; then
\* unpack_with_error(resp, n, data, &len, context): the host's reading of an
\* answer, with data[] of capacity cap
\* what the operation keeps of unpack_with_error's result
Unpacked(u) ==
  IF u.ret < 0 THEN [ok |-> FALSE, data |-> <<>>, len |-> 0]
  ELSE [ok |-> TRUE, data |-> SubSeq(u.data, 1, u.data_len), len |-> u.data_len]

HostRecv(answer, size, cap, cmd0) ==
  LET n == Min(Len(answer), size) IN
  IF n < 7 THEN [ok |-> FALSE, data |-> <<>>, len |-> 0]
  ELSE Unpacked(unpack_with_error(SubSeq(answer, 1, n), n,
                                  [i \in 1..cap |-> 0], 0, cmd0))

\* nr_chunks = (total_size + CHUNK_SIZE - 1) / CHUNK_SIZE,
\* src/src/radfu.c:886, :982, :1089
nr_chunks_floor(total_size) == total_size \div CHUNK_SIZE

nr_chunks(total_size) == U32(total_size + CHUNK_SIZE - 1) \div CHUNK_SIZE

\* chunk_size = (remaining > CHUNK_SIZE) ? CHUNK_SIZE : remaining,
\* src/src/radfu.c:895, :993, :1098
read_chunk_size_whole(remaining) == remaining

read_chunk_size(remaining) ==
  IF remaining > CHUNK_SIZE THEN CHUNK_SIZE ELSE remaining

\* memcpy(buffer + buffer_offset, chunk, chunk_len), src/src/radfu.c:924
read_append_over(buffer, chunk) == chunk

read_append(buffer, chunk) == buffer \o chunk

\* the same memcpy as seen by the process: buffer holds total_size bytes
\* (malloc(total_size), src/src/radfu.c:876-877), and what a copy that ends
\* behind them does to the process is left open by the language
read_copy(buffer_offset, chunk_len, total_size) ==
  IF buffer_offset + chunk_len <= total_size THEN {"intact"}
  ELSE {"intact", "aborted"}

\* one chunk of ra_write: the file's bytes from buf_offset on, then zeros,
\* src/src/radfu.c:1222-1231
write_copy_size(buf_offset, chunk_size, file_size) ==
  IF buf_offset + chunk_size <= file_size THEN chunk_size
  ELSE IF file_size > buf_offset THEN file_size - buf_offset ELSE 0

write_chunk_ff(data, buf_offset, chunk_size, file_size) ==
  LET copy_size == write_copy_size(buf_offset, chunk_size, file_size)
  IN  [k \in 1..chunk_size |->
         IF k <= copy_size THEN data[buf_offset + k] ELSE ERASED]

write_chunk(data, buf_offset, chunk_size, file_size) ==
  LET copy_size == write_copy_size(buf_offset, chunk_size, file_size)
  IN  [k \in 1..chunk_size |->
         IF k <= copy_size THEN data[buf_offset + k] ELSE 0]

\* the test of an acknowledgement in ra_write: n >= 7 and unpack_with_error
\* did not fail, src/src/radfu.c:1199-1210 and :1244-1254
write_acked_any(r) == TRUE

write_acked(r) == r.ok

MinOf(S) == CHOOSE x \in S : \A y \in S : x <= y
MaxOf(S) == CHOOSE x \in S : \A y \in S : x >= y

\* the comparison loop of ra_verify over the file's part of a chunk,
\* src/src/radfu.c:1022-1034: cmp_len, and the first j that differs
verify_compare_last(chunk, chunk_len, data, file_offset, current_addr) ==
  LET remaining_file == Len(data) - file_offset
      cmp_len == Min(remaining_file, chunk_len)
      bad == {j \in 0..(cmp_len - 1) : chunk[j + 1] # data[file_offset + j + 1]}
  IN  IF bad = {} THEN [cmp_len |-> cmp_len, report |-> NoReport]
      ELSE LET j == MaxOf(bad) IN
           [cmp_len |-> cmp_len,
            report |-> [kind |-> "mismatch", addr |-> U32(current_addr + j),
                        flash |-> chunk[j + 1],
                        file |-> data[file_offset + j + 1]]]

verify_compare(chunk, chunk_len, data, file_offset, current_addr) ==
  LET remaining_file == Len(data) - file_offset
      cmp_len == Min(remaining_file, chunk_len)
      bad == {j \in 0..(cmp_len - 1) : chunk[j + 1] # data[file_offset + j + 1]}
  IN  IF bad = {} THEN [cmp_len |-> cmp_len, report |-> NoReport]
      ELSE LET j == MinOf(bad) IN
           [cmp_len |-> cmp_len,
            report |-> [kind |-> "mismatch", addr |-> U32(current_addr + j),
                        flash |-> chunk[j + 1],
                        file |-> data[file_offset + j + 1]]]

\* the loop of ra_verify over the chunk's bytes beyond the file,
\* src/src/radfu.c:1036-1048
verify_beyond_skipped(chunk, chunk_len, cmp_len, current_addr) == NoReport

verify_beyond(chunk, chunk_len, cmp_len, current_addr) ==
  LET bad == {j \in cmp_len..(chunk_len - 1) : chunk[j + 1] # ERASED}
  IN  IF cmp_len >= chunk_len \/ bad = {} THEN NoReport
      ELSE LET j == MinOf(bad) IN
           [kind |-> "beyond", addr |-> U32(current_addr + j),
            flash |-> chunk[j + 1], file |-> ERASED]

\* the loop of ra_blank_check over a chunk, src/src/radfu.c:1123-1133
blank_scan_tail(chunk, chunk_len, current_addr) ==
  LET bad == {j \in 1..(chunk_len - 1) : chunk[j + 1] # ERASED}
  IN  IF bad = {} THEN NoReport
      ELSE LET j == MinOf(bad) IN
           [kind |-> "not_blank", addr |-> U32(current_addr + j),
            flash |-> chunk[j + 1], file |-> ERASED]

blank_scan(chunk, chunk_len, current_addr) ==
  LET bad == {j \in 0..(chunk_len - 1) : chunk[j + 1] # ERASED}
  IN  IF bad = {} THEN NoReport
      ELSE LET j == MinOf(bad) IN
           [kind |-> "not_blank", addr |-> U32(current_addr + j),
            flash |-> chunk[j + 1], file |-> ERASED]

\* the boundary check an operation starts with
op_boundaries_open(op, layout, sel0, start, size, end0) ==
  BoundsResult(0, U32(start + size - 1), sel0)

op_boundaries(op, layout, sel0, start, size, end0) ==
  CASE op = "erase" -> set_erase_boundaries(layout, sel0, start, size, end0)
    [] op = "write" -> set_write_boundaries(layout, sel0, start, size, end0)
    [] op = "crc" -> set_crc_boundaries(layout, sel0, start, size, end0)
    [] OTHER -> set_read_boundaries(layout, sel0, start, size, end0)

\* what the log keeps of a frame the host has sent, and the answer it got
LogEntry(f, answer) ==
  LET pl == FramePayload(f)
      ranged == f[1] = SOD_CMD /\ Len(pl) = 8
  IN  [cmd |-> f[4], sod |-> f[1], len |-> Len(pl),
       lo |-> IF ranged THEN be_to_uint32(pl, 0) ELSE 0,
       hi |-> IF ranged THEN be_to_uint32(pl, 4) ELSE 0,
       answer |-> answer]

\* the largest number of chunks an operation of the model runs through
MaxChunks == 3

DataBase == TestLayout[1].sad
ConfigBase == TestLayout[2].sad
NoAreaAddr == TestLayout[0].ead + 1

\* 3000 bytes when MaxChunks is 3: the last chunk is a partial one
LongSize == MaxChunks * CHUNK_SIZE - 72

\* start addresses: aligned in the data area, unaligned there, in the area
\* without erase unit, in no area, and 0 in the code area
FStarts == {DataBase, DataBase + 2, ConfigBase, NoAreaAddr, 0}

FSizes == {0, 1, 5, CHUNK_SIZE, CHUNK_SIZE + 1, LongSize}

\* the parsed input file: its bytes, and the address it carries if any
Files ==
  {[data |-> Pattern(n), has_addr |-> FALSE, base_addr |-> 0] :
     n \in {5, CHUNK_SIZE + 1, LongSize}}
    \cup {[data |-> Pattern(5), has_addr |-> TRUE, base_addr |-> DataBase]}

\* what the locals end and cmd hold before the callee writes them. The
\* operations read end only after a successful boundary call and read
\* neither cmd nor anything derived from it, so one value each stands for
\* all; the boundary and codec machines run through the others
FStackWords == {Word - 1}
FStackBytes == {STATUS_ERR}

\* the file's image with the bytes at the offsets of holes replaced by v
Altered(data, holes, v) ==
  [k \in 1..Len(data) |-> IF (k - 1) \in holes THEN v ELSE data[k]]

\* what the flash may hold at DataBase before the operation: nothing, the
\* file, the file with wrong bytes, the file followed by a byte that is not
\* erased, or an erased range with bytes that are not
Images(file) ==
  LET n == Len(file.data)
      at(bytes, keeps) ==
        [mem |-> [a \in DataBase..(DataBase + Len(bytes) - 1) |->
                    bytes[a - DataBase + 1]],
         keeps |-> keeps]
  IN  {at(<<>>, TRUE), at(<<>>, FALSE), at(file.data, TRUE),
       at(Altered(file.data, {1, n - 1}, 0), TRUE),
       at(Altered(file.data, {n - 1}, 0), TRUE),
       at(file.data \o <<ERASED, 0>>, TRUE),
       at(Altered([k \in 1..n |-> ERASED], {2, n - 1}, 0), TRUE)}

FlashInit ==
  /\ pc = "f_idle"
  /\ CodecIdle
  /\ BoundsIdle
  /\ OpenIdle
  /\ DlmIdle
  /\ CmdIdle
  /\ f_file \in Files
  /\ flash \in Images(f_file)
  /\ f_call = [op |-> "none", start |-> 0, size |-> 0, verify |-> FALSE]
  /\ f_loc = NoLocals
  /\ f_buf = <<>>
  /\ f_log = <<>>
  /\ f_w = NoWrite
  /\ f_ret = [ret |-> 1, report |-> NoReport]
  /\ dev_next = 0

FlashRest ==
  UNCHANGED <<f_file, chip_layout, b_in, b_out, codecVars, openVars, dlmVars,
              cmdVars>>

\* the operation returns
FlashReturn(ret, report) ==
  /\ pc' = "f_done"
  /\ f_ret' = [ret |-> ret, report |-> report]

\* the host sends frame f and reads the answer: the log, and what it read
Exchange(f, kind, size, cap, cmd0) ==
  IF kind = "unsent" THEN [log |-> f_log, r |-> [ok |-> FALSE, data |-> <<>>, len |-> 0]]
  ELSE [log |-> Append(f_log, LogEntry(f, kind)),
        r |-> HostRecv(DeviceAnswer(kind, flash, f), size, cap, cmd0)]

\* the loop the operation enters
LoopPc(op) ==
  CASE op = "verify" -> "f_verify"
    [] op = "blank" -> "f_blank"
    [] OTHER -> "f_read"

\* the start of ra_read, ra_verify and ra_blank_check up to the loop,
\* src/src/radfu.c:872-890, :954-986, :1075-1093
ReadStyleCall(call, op, start, size, end0) ==
  LET file_size == Len(f_file.data)
      start1 == IF op = "verify" /\ start = 0 /\ f_file.has_addr
                THEN f_file.base_addr ELSE start
      size1 == CASE op = "read" -> IF size = 0 THEN U32(262143 - start1) ELSE size
                 [] op = "verify" -> IF size = 0 THEN file_size ELSE size
                 [] OTHER -> size
      refused == \/ op = "verify" /\ size1 > file_size
                 \/ op = "blank" /\ size = 0
      b == op_boundaries(op, chip_layout, sel_area, start1, size1, end0)
      total_size == U32(b.end - start1 + 1)
  IN  /\ f_call' = call
      /\ f_buf' = <<>>
      /\ UNCHANGED <<flash, dev_next>>
      /\ IF refused
         THEN /\ FlashReturn(-1, NoReport)
              /\ UNCHANGED <<f_loc, sel_area>>
         ELSE /\ sel_area' = b.sel_area
              /\ IF b.ret < 0
                 THEN /\ FlashReturn(-1, NoReport)
                      /\ UNCHANGED f_loc
                 ELSE /\ nr_chunks(total_size) <= MaxChunks
                      /\ f_loc' = [start |-> start1, size |-> size1,
                                   end |-> b.end, i |-> 0,
                                   nr_chunks |-> nr_chunks(total_size),
                                   current_addr |-> start1, offset |-> 0,
                                   total |-> total_size]
                      /\ pc' = LoopPc(op)
                      /\ f_ret' = [ret |-> 1, report |-> NoReport]

ReadCall ==
  /\ pc = "f_idle"
  /\ \E start \in FStarts, size \in FSizes, end0 \in FStackWords :
       ReadStyleCall([op |-> "read", start |-> start, size |-> size,
                      verify |-> FALSE], "read", start, size, end0)
  /\ f_w' = NoWrite
  /\ f_log' = <<>>
  /\ FlashRest

VerifyCall ==
  /\ pc = "f_idle"
  /\ \E start \in FStarts, size \in FSizes, end0 \in FStackWords :
       ReadStyleCall([op |-> "verify", start |-> start, size |-> size,
                      verify |-> FALSE], "verify", start, size, end0)
  /\ f_w' = NoWrite
  /\ f_log' = <<>>
  /\ FlashRest

BlankCall ==
  /\ pc = "f_idle"
  /\ \E start \in FStarts, size \in FSizes, end0 \in FStackWords :
       ReadStyleCall([op |-> "blank", start |-> start, size |-> size,
                      verify |-> FALSE], "blank", start, size, end0)
  /\ f_w' = NoWrite
  /\ f_log' = <<>>
  /\ FlashRest

\* a read of the range that was just written, after ra_write has returned 0
ReadBackCall ==
  /\ pc = "f_done"
  /\ f_call.op = "write"
  /\ f_w.done
  /\ \E end0 \in FStackWords :
       LET size == U32(f_w.end - f_w.start + 1) IN
       ReadStyleCall([op |-> "read", start |-> f_w.start, size |-> size,
                      verify |-> FALSE], "read", f_w.start, size, end0)
  /\ f_log' = <<>>
  /\ UNCHANGED f_w
  /\ FlashRest

\* ra_verify of the file that was just written, with the arguments ra_write
\* was called with, after ra_write has returned 0
VerifyBackCall ==
  /\ pc = "f_done"
  /\ f_call.op = "write"
  /\ f_w.done
  /\ \E end0 \in FStackWords :
       ReadStyleCall([op |-> "verify", start |-> f_call.start,
                      size |-> f_call.size, verify |-> FALSE],
                     "verify", f_call.start, f_call.size, end0)
  /\ f_log' = <<>>
  /\ UNCHANGED f_w
  /\ FlashRest

\* one REA request and its answer: the head of the loop body in ra_read,
\* ra_verify and ra_blank_check, src/src/radfu.c:892-922, :990-1020, :1095-1126
ReaExchange(kind, cmd0) ==
  LET chunk_start == f_loc.current_addr
      remaining == U32(f_loc.end - chunk_start + 1)
      chunk_size == read_chunk_size(remaining)
      chunk_end == U32(chunk_start + chunk_size - 1)
      pkt == HostFrame(REA_CMD, uint32_to_be(chunk_start) \o uint32_to_be(chunk_end))
      x == Exchange(pkt.bytes, IF pkt.ret < 0 THEN "unsent" ELSE kind,
                    CHUNK_SIZE + 6, CHUNK_SIZE, cmd0)
  IN  [log |-> x.log, r |-> x.r, chunk_size |-> chunk_size]

\* one turn of ra_read's loop, src/src/radfu.c:892-929
ReadTurn(kinds) ==
  /\ pc = "f_read"
  /\ f_loc.i < f_loc.nr_chunks
  /\ \E kind \in kinds, cmd0 \in FStackBytes :
     \E x \in {ReaExchange(kind, cmd0)} :
     \E o \in read_copy(f_loc.offset, x.r.len, f_loc.total) :
       /\ f_log' = x.log
       /\ IF ~x.r.ok
          THEN /\ FlashReturn(-1, NoReport)
               /\ UNCHANGED <<f_loc, f_buf>>
          ELSE IF o = "aborted"
          THEN /\ FlashReturn(134, NoReport)
               /\ f_buf' = read_append(f_buf, x.r.data)
               /\ UNCHANGED f_loc
          ELSE /\ f_buf' = read_append(f_buf, x.r.data)
               /\ f_loc' = [f_loc EXCEPT !.offset = @ + x.r.len,
                                         !.current_addr = U32(@ + x.chunk_size),
                                         !.i = @ + 1]
               /\ UNCHANGED <<pc, f_ret>>
  /\ UNCHANGED <<f_call, f_w, flash, dev_next, sel_area>>
  /\ FlashRest

ReadChunk == ReadTurn(Answers)

ReadChunkLen == ReadTurn(LenAnswers)

\* after the loop ra_read hands the buffer to format_write and returns its
\* result, src/src/radfu.c:931-940
ReadFinish ==
  /\ pc = "f_read"
  /\ f_call.op = "read"
  /\ f_loc.i >= f_loc.nr_chunks
  /\ \E written \in BOOLEAN : FlashReturn(IF written THEN 0 ELSE -1, NoReport)
  /\ UNCHANGED <<f_call, f_loc, f_buf, f_log, f_w, flash, dev_next, sel_area>>
  /\ FlashRest

\* one turn of ra_verify's loop, src/src/radfu.c:990-1055
VerifyTurn(kinds) ==
  /\ pc = "f_verify"
  /\ f_loc.i < f_loc.nr_chunks
  /\ \E kind \in kinds, cmd0 \in FStackBytes :
     \E x \in {ReaExchange(kind, cmd0)} :
       /\ f_log' = x.log
       /\ IF ~x.r.ok
          THEN /\ FlashReturn(-1, NoReport)
               /\ UNCHANGED f_loc
          ELSE \E c \in {verify_compare(x.r.data, x.r.len, f_file.data,
                                          f_loc.offset, f_loc.current_addr)} :
               \E t \in {verify_beyond(x.r.data, x.r.len, c.cmp_len,
                                         f_loc.current_addr)} :
                   IF c.report # NoReport
                   THEN /\ FlashReturn(-1, c.report)
                        /\ UNCHANGED f_loc
                   ELSE IF t # NoReport
                   THEN /\ FlashReturn(-1, t)
                        /\ UNCHANGED f_loc
                   ELSE /\ f_loc' = [f_loc EXCEPT
                                       !.offset = U32(@ + c.cmp_len),
                                       !.current_addr = U32(@ + x.chunk_size),
                                       !.i = @ + 1]
                        /\ UNCHANGED <<pc, f_ret>>
  /\ UNCHANGED <<f_call, f_buf, f_w, flash, dev_next, sel_area>>
  /\ FlashRest

VerifyChunk == VerifyTurn(Answers)

VerifyChunkLen == VerifyTurn(LenAnswers)

\* ra_verify after its loop, src/src/radfu.c:1058-1063
VerifyFinish ==
  /\ pc = "f_verify"
  /\ f_loc.i >= f_loc.nr_chunks
  /\ FlashReturn(0, NoReport)
  /\ UNCHANGED <<f_call, f_loc, f_buf, f_log, f_w, flash, dev_next, sel_area>>
  /\ FlashRest

\* one turn of ra_blank_check's loop, src/src/radfu.c:1095-1141
BlankTurn(kinds) ==
  /\ pc = "f_blank"
  /\ f_loc.i < f_loc.nr_chunks
  /\ \E kind \in kinds, cmd0 \in FStackBytes :
     \E x \in {ReaExchange(kind, cmd0)} :
       /\ f_log' = x.log
       /\ IF ~x.r.ok
          THEN /\ FlashReturn(-1, NoReport)
               /\ UNCHANGED f_loc
          ELSE \E t \in {blank_scan(x.r.data, x.r.len, f_loc.current_addr)} :
                   IF t # NoReport
                   THEN /\ FlashReturn(-1, t)
                        /\ UNCHANGED f_loc
                   ELSE /\ f_loc' = [f_loc EXCEPT
                                       !.current_addr = U32(@ + x.chunk_size),
                                       !.i = @ + 1]
                        /\ UNCHANGED <<pc, f_ret>>
  /\ UNCHANGED <<f_call, f_buf, f_w, flash, dev_next, sel_area>>
  /\ FlashRest

BlankChunk == BlankTurn(Answers)

BlankChunkLen == BlankTurn(LenAnswers)

\* ra_blank_check after its loop, src/src/radfu.c:1139-1143
BlankFinish ==
  /\ pc = "f_blank"
  /\ f_loc.i >= f_loc.nr_chunks
  /\ FlashReturn(0, NoReport)
  /\ UNCHANGED <<f_call, f_loc, f_buf, f_log, f_w, flash, dev_next, sel_area>>
  /\ FlashRest

\* ra_write up to its loop: the file's address and size, the boundaries,
\* the header frame and its acknowledgement, src/src/radfu.c:1160-1214
WriteCall ==
  /\ pc = "f_idle"
  /\ \E start \in FStarts, size \in FSizes, verify \in BOOLEAN,
        end0 \in FStackWords, kind \in Answers, cmd0 \in FStackBytes :
       LET file_size == Len(f_file.data)
           start1 == IF start = 0 /\ f_file.has_addr
                     THEN f_file.base_addr ELSE start
           size1 == IF size = 0 THEN file_size ELSE size
           b == op_boundaries("write", chip_layout, sel_area, start1, size1, end0)
           write_size == U32(b.end - start1 + 1)
           pkt == HostFrame(WRI_CMD, uint32_to_be(start1) \o uint32_to_be(b.end))
       IN  /\ f_call' = [op |-> "write", start |-> start, size |-> size,
                         verify |-> verify]
           /\ f_buf' = <<>>
           /\ UNCHANGED flash
           /\ IF size1 > file_size
              THEN /\ FlashReturn(-1, NoReport)
                   /\ f_log' = <<>>
                   /\ f_w' = NoWrite
                   /\ UNCHANGED <<f_loc, sel_area, dev_next>>
              ELSE /\ sel_area' = b.sel_area
                   /\ IF b.ret < 0
                      THEN /\ FlashReturn(-1, NoReport)
                           /\ f_log' = <<>>
                           /\ f_w' = NoWrite
                           /\ UNCHANGED <<f_loc, dev_next>>
                      ELSE \E x \in {Exchange(pkt.bytes,
                                                IF pkt.ret < 0 THEN "unsent" ELSE kind,
                                                16, 16, cmd0)} :
                           /\ nr_chunks(write_size) <= MaxChunks
                           /\ f_log' = x.log
                           /\ f_w' = [start |-> start1, end |-> b.end,
                                      data |-> <<>>, done |-> FALSE]
                           /\ IF ~write_acked(x.r)
                              THEN /\ FlashReturn(-1, NoReport)
                                   /\ UNCHANGED <<f_loc, dev_next>>
                              ELSE /\ f_loc' = [start |-> start1, size |-> size1,
                                                end |-> b.end, i |-> 0,
                                                nr_chunks |-> 0,
                                                current_addr |-> start1,
                                                offset |-> 0, total |-> 0]
                                   /\ dev_next' = start1
                                   /\ pc' = "f_write"
                                   /\ f_ret' = [ret |-> 1, report |-> NoReport]
  /\ FlashRest

\* one turn of ra_write's loop, src/src/radfu.c:1216-1258: the chunk, its
\* frame, the acknowledgement; the device programs the chunk it acknowledges
WriteChunk ==
  /\ pc = "f_write"
  /\ f_loc.total < U32(f_loc.end - f_loc.start + 1)
  /\ \E kind \in Answers, cmd0 \in FStackBytes :
       LET write_size == U32(f_loc.end - f_loc.start + 1)
           file_size == Len(f_file.data)
           remaining == U32(write_size - f_loc.total)
           chunk_size == IF remaining < CHUNK_SIZE THEN remaining ELSE CHUNK_SIZE
           copy_size == write_copy_size(f_loc.offset, chunk_size, file_size)
           chunk == write_chunk(f_file.data, f_loc.offset, chunk_size, file_size)
           pkt == DataFrame(WRI_CMD, chunk)
           sent == pkt.ret >= 0 /\ kind # "unsent"
           stored == sent /\ kind = "ok"
       IN  \E x \in {Exchange(pkt.bytes, IF pkt.ret < 0 THEN "unsent" ELSE kind,
                             16, 16, cmd0)} :
           /\ f_log' = x.log
           /\ f_w' = [f_w EXCEPT !.data = IF sent THEN @ \o FramePayload(pkt.bytes)
                                          ELSE @]
           /\ flash' = IF stored /\ flash.keeps
                       THEN FlashStore(flash, dev_next, FramePayload(pkt.bytes))
                       ELSE flash
           /\ dev_next' = IF stored THEN U32(dev_next + chunk_size) ELSE dev_next
           /\ IF ~write_acked(x.r)
              THEN /\ FlashReturn(-1, NoReport)
                   /\ UNCHANGED f_loc
              ELSE /\ f_loc' = [f_loc EXCEPT !.offset = U32(@ + copy_size),
                                             !.total = U32(@ + chunk_size)]
                   /\ UNCHANGED <<pc, f_ret>>
  /\ UNCHANGED <<f_call, f_buf, sel_area>>
  /\ FlashRest

\* ra_write after its loop, src/src/radfu.c:1260-1274 and :1318-1319:
\* without verify it returns 0; with verify it creates the temporary file and
\* calls ra_read(dev, tmpfile, start, size, FORMAT_BIN)
WriteFinish ==
  /\ pc = "f_write"
  /\ f_loc.total >= U32(f_loc.end - f_loc.start + 1)
  /\ IF ~f_call.verify
     THEN /\ FlashReturn(0, NoReport)
          /\ f_w' = [f_w EXCEPT !.done = TRUE]
          /\ UNCHANGED <<f_call, f_loc, f_buf, flash, dev_next, sel_area>>
     ELSE \E tmp_ok \in BOOLEAN, end0 \in FStackWords :
            IF ~tmp_ok
            THEN /\ FlashReturn(-1, NoReport)
                 /\ UNCHANGED <<f_call, f_loc, f_buf, f_w, flash, dev_next, sel_area>>
            ELSE /\ ReadStyleCall(f_call, "read", f_loc.start, f_loc.size, end0)
                 /\ UNCHANGED f_w
  /\ UNCHANGED f_log
  /\ FlashRest

\* the comparison of the read-back with the parsed file,
\* src/src/radfu.c:1287-1305: the values match can end with. memcmp compares
\* n_read bytes from parsed.data + compared although fewer than n_read bytes
\* of the file may be left there; what it finds behind the file's last byte
\* is not determined
verify_match(data, buf) ==
  LET file_size == Len(data)
      both == Min(file_size, Len(buf))
      differ == \E k \in 1..both : data[k] # buf[k]
      beyond == \E c \in 0..(file_size \div CHUNK_SIZE) :
                  LET compared == c * CHUNK_SIZE
                      n_read == Min(CHUNK_SIZE, Len(buf) - compared)
                  IN  /\ compared < file_size
                      /\ n_read > 0
                      /\ compared + n_read > file_size
  IN  IF differ THEN {FALSE}
      ELSE IF beyond THEN {TRUE, FALSE}
      ELSE {TRUE}

\* the end of ra_write with verify, src/src/radfu.c:1274-1319: ra_read has
\* left its loop; it writes the temporary file, ra_write reads it back,
\* compares, prints the outcome and returns 0
WriteCompare ==
  /\ pc = "f_read"
  /\ f_call.op = "write"
  /\ f_loc.i >= f_loc.nr_chunks
  /\ \E tmp_ok \in BOOLEAN, match \in verify_match(f_file.data, f_buf) :
       IF ~tmp_ok
       THEN /\ FlashReturn(-1, NoReport)
            /\ UNCHANGED f_w
       ELSE /\ FlashReturn(0, [kind |-> IF match THEN "verify_complete"
                                        ELSE "verify_failed",
                               addr |-> 0, flash |-> 0, file |-> 0])
            /\ f_w' = [f_w EXCEPT !.done = TRUE]
  /\ UNCHANGED <<f_call, f_loc, f_buf, f_log, flash, dev_next, sel_area>>
  /\ FlashRest

\* ra_erase and ra_crc, src/src/radfu.c:823-859 and :1322-1368: the
\* boundaries, one frame with {start, end}, one answer
RangeCall(op, cmd, start, size, end0, kind, cmd0) ==
  LET b == op_boundaries(op, chip_layout, sel_area, start,
                         IF size = 0 THEN 1 ELSE size, end0)
      pkt == HostFrame(cmd, uint32_to_be(start) \o uint32_to_be(b.end))
      sent == pkt.ret >= 0 /\ kind # "unsent"
  IN  /\ f_call' = [op |-> op, start |-> start, size |-> size, verify |-> FALSE]
      /\ sel_area' = b.sel_area
      /\ f_w' = NoWrite
      /\ f_buf' = <<>>
      /\ UNCHANGED <<f_loc, dev_next>>
      /\ IF b.ret < 0
         THEN /\ FlashReturn(-1, NoReport)
              /\ f_log' = <<>>
              /\ UNCHANGED flash
         ELSE \E x \in {Exchange(pkt.bytes,
                                   IF pkt.ret < 0 THEN "unsent" ELSE kind,
                                   16, 16, cmd0)} :
              /\ f_log' = x.log
              /\ flash' = IF op = "erase" /\ sent /\ kind = "ok" /\ flash.keeps
                          THEN FlashErase(flash, start, b.end)
                          ELSE flash
              /\ IF ~x.r.ok \/ (op = "crc" /\ x.r.len < 4)
                 THEN FlashReturn(-1, NoReport)
                 ELSE FlashReturn(0, NoReport)

EraseCall ==
  /\ pc = "f_idle"
  /\ \E start \in FStarts, size \in FSizes, end0 \in FStackWords,
        kind \in Answers, cmd0 \in FStackBytes :
       RangeCall("erase", ERA_CMD, start, size, end0, kind, cmd0)
  /\ FlashRest

CrcCall ==
  /\ pc = "f_idle"
  /\ \E start \in FStarts, size \in FSizes, end0 \in FStackWords,
        kind \in Answers, cmd0 \in FStackBytes :
       RangeCall("crc", CRC_CMD, start, size, end0, kind, cmd0)
  /\ FlashRest

FlashNext ==
  \/ ReadCall
  \/ ReadChunk
  \/ ReadFinish
  \/ VerifyCall
  \/ VerifyChunk
  \/ VerifyFinish
  \/ BlankCall
  \/ BlankChunk
  \/ BlankFinish
  \/ WriteCall
  \/ WriteChunk
  \/ WriteFinish
  \/ WriteCompare
  \/ ReadBackCall
  \/ VerifyBackCall
  \/ EraseCall
  \/ CrcCall

SpecFlash == FlashInit /\ [][FlashNext]_vars

(***************************************************************************)
(* The flash operations in front of a device whose data responses need not *)
(* have the requested length.                                              *)
(***************************************************************************)
DataNext ==
  \/ FlashNext
  \/ ReadChunkLen
  \/ VerifyChunkLen
  \/ BlankChunkLen

SpecData == FlashInit /\ [][DataNext]_vars

(***************************************************************************)
(* The single-command operations: ra_dlm_auth, ra_initialize and           *)
(* ra_get_area_info of src/src/radfu.c and ra_set_baudrate of              *)
(* src/src/raconnect.c.  Each sends a request, receives its response and   *)
(* goes on or returns.  a_log records every ra_send that succeeded ("tx")  *)
(* and every ra_recv ("rx") in the order the host performed them.          *)
(***************************************************************************)
DLM_AUTH_CMD == 48
INI_CMD == 80
BAU_CMD == 52
ARE_CMD == 59

Tx(f) == [ev |-> "tx", n |-> Len(f), bytes |-> f]

Rx(r) == [ev |-> "rx", n |-> r.n, bytes |-> r.buf]

\* ra_pack_pkt(pkt, sizeof(pkt), cmd, data, len, ack)
PackFrame(cmd, data, ack) ==
  LET r == ra_pack_pkt([i \in 1..MAX_PKT_LEN |-> 0], MAX_PKT_LEN, cmd, data,
                       Len(data), ack)
  IN  [ret |-> r.ret, bytes |-> SubSeq(r.buf, 1, IF r.ret < 0 THEN 0 ELSE r.ret)]

\* ra_recv(dev, resp, size, timeout): an error, or the first size bytes of
\* what the device has sent
CmdRecv(reply, size) ==
  {[n |-> -1, buf |-> <<>>],
   [n |-> Min(Len(reply), size), buf |-> SubSeq(reply, 1, Min(Len(reply), size))]}

\* ra_send(dev, pkt, pkt_len) and then ra_recv(dev, resp, sizeof(resp), ...),
\* as every request of these operations is written, e.g.
\* src/src/radfu.c:2062-2066
cmd_exchange_unread(log, f, r) == Append(log, Tx(f))

cmd_exchange(log, f, r) == Append(Append(log, Tx(f)), Rx(r))

\* resp[] and n of the last ra_recv
LastRx == a_log[Len(a_log)]

CmdReturn(ret) ==
  /\ pc' = "a_done"
  /\ a_ret' = ret

CmdRest ==
  UNCHANGED <<codecVars, sel_area, b_in, b_out, openVars, dlmVars, flashVars,
              m_run>>

\* pack, send, receive and the test "n < 7" that follows every receive
CmdRequest(pkt, replies, size, nextpc) ==
  \E sent \in BOOLEAN :
    IF pkt.ret < 0 \/ ~sent
    THEN /\ CmdReturn(-1)
         /\ UNCHANGED a_log
    ELSE \E reply \in replies : \E r \in CmdRecv(reply, size) :
           /\ a_log' = cmd_exchange(a_log, pkt.bytes, r)
           /\ IF r.n < 7
              THEN CmdReturn(-1)
              ELSE pc' = nextpc /\ UNCHANGED a_ret

(***************************************************************************)
(* ra_dlm_auth, src/src/radfu.c:2041-2211                                  *)
(***************************************************************************)
AUTH_RESP_SIZE == 64
AUTH_RESP_DATA_SIZE == 32
CHALLENGE_SIZE == 16
MAC_SIZE == 32

\* DLM_AUTH_FIXED_VALUE, src/src/radfu.c:2020
DLM_AUTH_FIXED_VALUE == [i \in 1..32 |-> 0]

\* HMAC(EVP_sha256(), ...) is OpenSSL's.  The model keeps what the caller
\* relies on: 32 bytes determined by the key bytes and the message bytes.
RECURSIVE Weighted(_, _)
Weighted(s, k) ==
  IF k = 0 THEN 0 ELSE (Weighted(s, k - 1) * 3 + s[k] + 1) % 65521

Digest(key, msg) ==
  [i \in 1..MAC_SIZE |->
     (Weighted(key, Len(key)) * 5 + Weighted(msg, Len(msg)) * 7 + i) % 256]

\* compute_hmac_sha256, src/src/radfu.c:2028-2038: -1 when HMAC fails
compute_hmac_sha256(key, key_len, data, data_len) ==
  {[ret |-> -1, out |-> <<>>],
   [ret |-> 0, out |-> Digest(SubSeq(key, 1, key_len), SubSeq(data, 1, data_len))]}

\* the transitions ra_dlm_auth accepts, src/src/radfu.c:2094-2119
valid_transition_any(current_dlm, dest_dlm) == TRUE

valid_transition(current_dlm, dest_dlm) ==
  \/ current_dlm = DLM_STATE_NSECSD /\ dest_dlm = DLM_STATE_SSD
  \/ current_dlm = DLM_STATE_DPL /\ dest_dlm = DLM_STATE_NSECSD
  \/ /\ current_dlm = DLM_STATE_SSD \/ current_dlm = DLM_STATE_DPL
     /\ dest_dlm = DLM_STATE_RMA_REQ

\* message[48], src/src/radfu.c:2170-2172
auth_message(challenge) ==
  SubSeq(challenge, 1, CHALLENGE_SIZE) \o DLM_AUTH_FIXED_VALUE

\* the keys a caller passes: 16 bytes
AuthKeys == {[i \in 1..16 |-> 0], [i \in 1..16 |-> 16 * i - 1]}

\* what the device sends after the AUTH request: nothing, a cut-off frame,
\* an error, or a challenge of 15, 16 or 17 bytes
Challenge(n) == [i \in 1..n |-> 160 + i]

AuthChallengeReplies ==
  {<<>>, SubSeq(DeviceFrame(DLM_AUTH_CMD, Challenge(16)), 1, 6),
   DeviceFrame(DLM_AUTH_CMD + STATUS_ERR, <<ERR_PROT>>)}
    \cup {DeviceFrame(DLM_AUTH_CMD, Challenge(n)) : n \in 15..17}

\* what the device sends after the MAC
AuthFinalReplies ==
  {<<>>, DeviceFrame(DLM_AUTH_CMD, <<0>>),
   SubSeq(DeviceFrame(DLM_AUTH_CMD, <<0>>), 1, 6),
   DeviceFrame(DLM_AUTH_CMD + STATUS_ERR, <<ERR_PROT>>)}

\* the builds: with and without HAVE_OPENSSL
Builds == BOOLEAN

\* the call and the DLM state request, src/src/radfu.c:2042-2070
AuthCall ==
  /\ pc = "a_idle"
  /\ \E dest_dlm \in DlmDests, key \in AuthKeys, openssl \in Builds :
       /\ a_call' = [op |-> "auth", dest |-> dest_dlm, key |-> key,
                     baudrate |-> 0, openssl |-> openssl]
       /\ IF ~openssl
          THEN CmdReturn(-1) /\ UNCHANGED a_log
          ELSE CmdRequest(PackFrame(DLM_CMD, <<>>, FALSE), DlmStateReplies,
                          AUTH_RESP_SIZE, "a_state")
  /\ UNCHANGED <<a_loc, a_dev, chip_layout>>
  /\ CmdRest

\* decode the state, check the transition and send the AUTH request,
\* src/src/radfu.c:2072-2143
AuthRequest ==
  /\ pc = "a_state"
  /\ \E cmd0 \in StackBytes :
     \E u \in {unpack_with_error(LastRx.bytes, LastRx.n,
                                 [i \in 1..AUTH_RESP_DATA_SIZE |-> 0], 0, cmd0)} :
       IF u.ret < 0 \/ u.data_len < 1
       THEN /\ CmdReturn(-1)
            /\ UNCHANGED <<a_loc, a_log>>
       ELSE \E current_dlm \in {u.data[1]} :
            /\ a_loc' = [a_loc EXCEPT !.current_dlm = current_dlm]
            /\ IF current_dlm = a_call.dest
               THEN CmdReturn(0) /\ UNCHANGED a_log
               ELSE IF ~valid_transition(current_dlm, a_call.dest)
               THEN CmdReturn(-1) /\ UNCHANGED a_log
               ELSE CmdRequest(PackFrame(DLM_AUTH_CMD,
                                         <<current_dlm, a_call.dest, 0>>, FALSE),
                               AuthChallengeReplies, AUTH_RESP_SIZE, "a_challenge")
  /\ UNCHANGED <<a_call, a_dev, chip_layout>>
  /\ CmdRest

\* unpack_with_error copies the response data into challenge[16] without a
\* length check (src/src/rapacker.c:152-153).  A longer challenge overruns
\* the array: the run goes on with its locals intact, is aborted, or goes on
\* with a key read through an overwritten pointer.
challenge_copy(u, key) ==
  IF Len(u.data) <= CHALLENGE_SIZE
  THEN {[aborted |-> FALSE, key |-> key]}
  ELSE {[aborted |-> TRUE, key |-> key]}
         \cup {[aborted |-> FALSE, key |-> k] : k \in AuthKeys}

\* decode the challenge, compute the MAC and send it,
\* src/src/radfu.c:2145-2201
AuthMac ==
  /\ pc = "a_challenge"
  /\ \E cmd0 \in StackBytes :
     \E u \in {unpack_with_error(LastRx.bytes, LastRx.n,
                                 [i \in 1..CHALLENGE_SIZE |-> 0], 0, cmd0)} :
     \E c \in challenge_copy(u, a_call.key) :
       IF c.aborted
       THEN /\ CmdReturn(134)
            /\ UNCHANGED <<a_loc, a_log>>
       ELSE IF u.ret < 0 \/ u.data_len < 16
       THEN /\ CmdReturn(-1)
            /\ UNCHANGED <<a_loc, a_log>>
       ELSE /\ a_loc' = [a_loc EXCEPT !.challenge = SubSeq(u.data, 1, CHALLENGE_SIZE)]
            /\ \E h \in compute_hmac_sha256(c.key, 16, auth_message(u.data), 48) :
                 IF h.ret < 0
                 THEN CmdReturn(-1) /\ UNCHANGED a_log
                 ELSE CmdRequest(PackFrame(DLM_AUTH_CMD, h.out, TRUE),
                                 AuthFinalReplies, AUTH_RESP_SIZE, "a_final")
  /\ UNCHANGED <<a_call, a_dev, chip_layout>>
  /\ CmdRest

\* the final status, src/src/radfu.c:2203-2208
AuthResult ==
  /\ pc = "a_final"
  /\ \E cmd0 \in StackBytes :
     \E u \in {unpack_with_error(LastRx.bytes, LastRx.n,
                                 [i \in 1..AUTH_RESP_DATA_SIZE |-> 0], 0, cmd0)} :
       CmdReturn(IF u.ret < 0 THEN -1 ELSE 0)
  /\ UNCHANGED <<a_call, a_loc, a_log, a_dev, chip_layout>>
  /\ CmdRest

(***************************************************************************)
(* ra_initialize, src/src/radfu.c:1771-1848.  resp[32] and resp_data[16]   *)
(* have the sizes of ra_dlm_transit's.                                     *)
(***************************************************************************)
\* the states ra_initialize goes on from, src/src/radfu.c:1806-1817
initialize_allowed_not_cm(current_dlm) == current_dlm # DLM_STATE_CM

initialize_allowed(current_dlm) ==
  /\ current_dlm # DLM_STATE_CM
  /\ ~(current_dlm # DLM_STATE_SSD /\ current_dlm # DLM_STATE_NSECSD
         /\ current_dlm # DLM_STATE_DPL)

IniReplies ==
  {<<>>, DeviceFrame(INI_CMD, <<0>>), SubSeq(DeviceFrame(INI_CMD, <<0>>), 1, 6),
   DeviceFrame(INI_CMD + STATUS_ERR, <<ERR_PROT>>)}

\* the call and the DLM state request, src/src/radfu.c:1772-1792
InitializeCall ==
  /\ pc = "a_idle"
  /\ a_call' = [NoCall EXCEPT !.op = "initialize"]
  /\ CmdRequest(PackFrame(DLM_CMD, <<>>, FALSE), DlmStateReplies,
                DLM_RESP_SIZE, "i_state")
  /\ UNCHANGED <<a_loc, a_dev, chip_layout>>
  /\ CmdRest

\* decode the state, check it and send the INI request,
\* src/src/radfu.c:1794-1841
InitializeRequest ==
  /\ pc = "i_state"
  /\ \E cmd0 \in StackBytes :
     \E u \in {unpack_with_error(LastRx.bytes, LastRx.n,
                                 [i \in 1..DLM_RESP_DATA_SIZE |-> 0], 0, cmd0)} :
       IF u.ret < 0 \/ u.data_len < 1
       THEN /\ CmdReturn(-1)
            /\ UNCHANGED <<a_loc, a_log>>
       ELSE \E current_dlm \in {u.data[1]} :
            /\ a_loc' = [a_loc EXCEPT !.current_dlm = current_dlm]
            /\ IF ~initialize_allowed(current_dlm)
               THEN CmdReturn(-1) /\ UNCHANGED a_log
               ELSE CmdRequest(PackFrame(INI_CMD, <<current_dlm, DLM_STATE_SSD>>,
                                         FALSE),
                               IniReplies, DLM_RESP_SIZE, "i_final")
  /\ UNCHANGED <<a_call, a_dev, chip_layout>>
  /\ CmdRest

\* the response to the INI request, src/src/radfu.c:1843-1847
InitializeResult ==
  /\ pc = "i_final"
  /\ \E cmd0 \in StackBytes :
     \E u \in {unpack_with_error(LastRx.bytes, LastRx.n,
                                 [i \in 1..DLM_RESP_DATA_SIZE |-> 0], 0, cmd0)} :
       CmdReturn(IF u.ret < 0 THEN -1 ELSE 0)
  /\ UNCHANGED <<a_call, a_loc, a_log, a_dev, chip_layout>>
  /\ CmdRest

(***************************************************************************)
(* query_noa and ra_get_area_info, src/src/radfu.c:406-570.  The device    *)
(* holds a table of up to eight areas and reports how many are in use in   *)
(* byte 4 of its signature; it answers an ARE request with the descriptor  *)
(* of the area whose index the request carries.                            *)
(***************************************************************************)
AREA_RESP_SIZE == 64
AREA_DATA_SIZE == 64
AREA_DESC_SIZE == 25

\* the device's areas: two banks of code flash, data flash and config
DeviceArea(i) ==
  [koa |-> <<0, 16, 32, 32, 1, 16, 32, 32>>[i + 1],
   sad |-> i * 1048576, ead |-> i * 1048576 + 65535 + i,
   eau |-> 8192, wau |-> 128 + i, rau |-> 4, cau |-> 4]

\* KOA(1) SAD(4) EAD(4) EAU(4) WAU(4) RAU(4) CAU(4), big-endian
Descriptor(a) ==
  <<a.koa>> \o uint32_to_be(a.sad) \o uint32_to_be(a.ead) \o uint32_to_be(a.eau)
    \o uint32_to_be(a.wau) \o uint32_to_be(a.rau) \o uint32_to_be(a.cau)

\* the NOA values a signature reports
Noas == {0, 1, 2, 4, 5, 8}

\* what the device sends after the signature request: nothing, an error, a
\* signature too short to hold NOA, or RMB(4) NOA(1) TYP(1)
SignatureReplies ==
  {<<>>, DeviceFrame(SIG_CMD + STATUS_ERR, <<ERR_PROT>>),
   DeviceFrame(SIG_CMD, <<0, 15, 66, 64>>)}
    \cup {DeviceFrame(SIG_CMD, <<0, 15, 66, 64, n, 1>>) : n \in Noas}

\* what the device sends after the ARE request f: the descriptor of the
\* area f names, that descriptor without its last byte, an error or nothing
AreaReplies(f) ==
  {<<>>, DeviceFrame(ARE_CMD + STATUS_ERR, <<ERR_PROT>>),
   DeviceFrame(ARE_CMD, Descriptor(DeviceArea(f[5] % 8))),
   DeviceFrame(ARE_CMD, SubSeq(Descriptor(DeviceArea(f[5] % 8)), 1, 24))}

\* dev->noa after query_noa, src/src/radfu.c:428-435
noa_from_signature(data, data_len) ==
  IF data_len >= 5
  THEN IF At(data, 4) > MAX_AREAS THEN MAX_AREAS ELSE At(data, 4)
  ELSE 4

\* int num_areas = dev->noa > 0 ? dev->noa : 4, src/src/radfu.c:460
num_areas(noa) == IF noa > 0 THEN noa ELSE 4

\* the fields ra_get_area_info decodes, src/src/radfu.c:485-499
area_entry(data) ==
  [koa |-> At(data, 0), sad |-> be_to_uint32(data, 1), ead |-> be_to_uint32(data, 5),
   eau |-> be_to_uint32(data, 9), wau |-> be_to_uint32(data, 13),
   rau |-> be_to_uint32(data, 17), cau |-> be_to_uint32(data, 21)]

\* the call; dev->noa is 0, so query_noa sends the signature request,
\* src/src/radfu.c:441-457, 407-423
AreasCall ==
  /\ pc = "a_idle"
  /\ a_dev.noa = 0
  /\ a_call' = [NoCall EXCEPT !.op = "areas"]
  /\ CmdRequest(PackFrame(SIG_CMD, <<>>, FALSE), SignatureReplies,
                AREA_RESP_SIZE, "r_signature")
  /\ UNCHANGED <<a_loc, a_dev, chip_layout>>
  /\ CmdRest

\* query_noa decodes the signature, src/src/radfu.c:425-437, 454-460
AreasNoa ==
  /\ pc = "r_signature"
  /\ \E cmd0 \in StackBytes :
     \E u \in {unpack_with_error(LastRx.bytes, LastRx.n,
                                 [i \in 1..AREA_DATA_SIZE |-> 0], 0, cmd0)} :
       IF u.ret < 0
       THEN /\ CmdReturn(-1)
            /\ UNCHANGED <<a_loc, a_dev>>
       ELSE /\ a_dev' = [a_dev EXCEPT !.noa = noa_from_signature(u.data, u.data_len)]
            /\ a_loc' = [a_loc EXCEPT !.i = 0]
            /\ pc' = "r_loop"
            /\ UNCHANGED a_ret
  /\ UNCHANGED <<a_call, a_log, chip_layout>>
  /\ CmdRest

\* one turn of the loop over the areas, src/src/radfu.c:461-547
AreaQuery ==
  /\ pc = "r_loop"
  /\ a_loc.i < num_areas(a_dev.noa)
  /\ \E pkt \in {PackFrame(ARE_CMD, <<a_loc.i % 256>>, FALSE)} :
     \E sent \in BOOLEAN :
       IF pkt.ret < 0 \/ ~sent
       THEN /\ CmdReturn(-1)
            /\ UNCHANGED <<a_log, a_loc, chip_layout>>
       ELSE \E reply \in AreaReplies(pkt.bytes) :
            \E r \in CmdRecv(reply, AREA_RESP_SIZE) :
            \E cmd0 \in StackBytes :
            \E u \in {unpack_with_error(r.buf, r.n,
                                        [i \in 1..AREA_DATA_SIZE |-> 0], 0, cmd0)} :
              /\ a_log' = cmd_exchange(a_log, pkt.bytes, r)
              /\ IF r.n < 7 \/ u.ret < 0 \/ u.data_len < AREA_DESC_SIZE
                 THEN /\ CmdReturn(-1)
                      /\ UNCHANGED <<a_loc, chip_layout>>
                 ELSE /\ chip_layout' =
                           [chip_layout EXCEPT ![a_loc.i] = area_entry(u.data)]
                      /\ a_loc' = [a_loc EXCEPT !.i = a_loc.i + 1]
                      /\ UNCHANGED <<pc, a_ret>>
  /\ UNCHANGED <<a_call, a_dev>>
  /\ CmdRest

\* the loop is over; the summary is printed, src/src/radfu.c:549-569
AreasFinish ==
  /\ pc = "r_loop"
  /\ a_loc.i >= num_areas(a_dev.noa)
  /\ CmdReturn(0)
  /\ UNCHANGED <<a_call, a_loc, a_log, a_dev, chip_layout>>
  /\ CmdRest

\* ra_dev_init has zeroed the device structure, src/src/raconnect.c:36-45
(***************************************************************************)
(* ra_set_baudrate, src/src/raconnect.c:458-517.  A speed_t is modelled by *)
(* the rate it stands for, B0 by 0.                                        *)
(***************************************************************************)
BAUD_RESP_SIZE == 16
B0 == 0

\* baudrate_to_speed, src/src/raconnect.c:331-399, in a build whose termios
\* defines every rate up to B4000000
SupportedRates ==
  {9600, 19200, 38400, 57600, 115200, 230400, 460800, 500000, 576000, 921600,
   1000000, 1152000, 1500000, 2000000, 2500000, 3000000, 3500000, 4000000}

baudrate_to_speed(baudrate) == IF baudrate \in SupportedRates THEN baudrate ELSE B0

\* the test on the response to the BAU request, src/src/raconnect.c:493
baud_acked_any(u) == TRUE

baud_acked(u) == ~(u.ret < 0)

\* the rates a caller asks for: in the table, and not
BaudRates == {9600, 115200, 1000000, 4000000, 0, 14400, 5000000}

\* a frame with one byte replaced
Damaged(f, k, v) == [f EXCEPT ![k] = v]

\* the status frame of an erase request that the host gave up waiting for
LateReply == DeviceFrame(ERA_CMD, <<0>>)

\* what the device sends after the BAU request: nothing, a cut-off frame, an
\* error, a frame damaged on the line, the acknowledgement, or the late
\* answer to an earlier request
BaudReplies ==
  LET ok == DeviceFrame(BAU_CMD, <<0>>) IN
  {<<>>, ok, SubSeq(ok, 1, 6), DeviceFrame(BAU_CMD + STATUS_ERR, <<ERR_PROT>>),
   Damaged(ok, 1, SOD_CMD), Damaged(ok, 6, (ok[6] + 1) % 256), Damaged(ok, 7, 0),
   LateReply}

\* the call up to the receive, src/src/raconnect.c:459-489
BaudCall ==
  /\ pc = "a_idle"
  /\ \E baudrate \in BaudRates :
       /\ a_call' = [NoCall EXCEPT !.op = "baud", !.baudrate = baudrate]
       /\ IF baudrate_to_speed(baudrate) = B0
          THEN CmdReturn(-1) /\ UNCHANGED a_log
          ELSE CmdRequest(PackFrame(BAU_CMD, uint32_to_be(baudrate), FALSE),
                          BaudReplies, BAUD_RESP_SIZE, "u_ack")
  /\ UNCHANGED <<a_loc, a_dev, chip_layout>>
  /\ CmdRest

\* check the response, set the port and record the rate,
\* src/src/raconnect.c:491-516; set_serial_attrs fails when tcgetattr or
\* tcsetattr does, and the port then keeps its speed
BaudApply ==
  /\ pc = "u_ack"
  /\ \E cmd0 \in StackBytes :
     \E u \in {ra_unpack_pkt(LastRx.bytes, LastRx.n, NullBuf, 0, cmd0)} :
     \E attrs_set \in BOOLEAN :
       IF ~baud_acked(u)
       THEN CmdReturn(-1) /\ UNCHANGED a_dev
       ELSE IF ~attrs_set
       THEN CmdReturn(-1) /\ UNCHANGED a_dev
       ELSE /\ a_dev' = [a_dev EXCEPT !.speed = baudrate_to_speed(a_call.baudrate),
                                      !.baudrate = a_call.baudrate]
            /\ CmdReturn(0)
  /\ UNCHANGED <<a_call, a_loc, a_log, chip_layout>>
  /\ CmdRest

(***************************************************************************)
(* ra_get_dlm, src/src/radfu.c:1406-1445                                   *)
(***************************************************************************)
GET_DLM_RESP_SIZE == 16
GET_DLM_DATA_SIZE == 8

\* an error response with the full report STS(1) ST2(4) ADR(4)
ErrorReport(cmd, sts) ==
  DeviceFrame(cmd + STATUS_ERR, <<sts, 255, 255, 255, 255, 255, 255, 255, 255>>)

GetDlmReplies ==
  DlmStateReplies \cup {ErrorReport(DLM_CMD, ERR_FLOW), LateReply}

\* memcpy(data, &buf[4], dlen) of ra_unpack_pkt into a buffer of size bytes,
\* src/src/rapacker.c:152-153 and 131-132: what happens to the caller when
\* dlen is larger than the buffer is left open by the language
unpack_into(u, size) ==
  IF Len(u.data) <= size THEN {"intact"} ELSE {"intact", "aborted"}

\* the DLM state request, src/src/radfu.c:1413-1426
GetDlmCall ==
  /\ pc = "a_idle"
  /\ a_call' = [NoCall EXCEPT !.op = "get_dlm"]
  /\ CmdRequest(PackFrame(DLM_CMD, <<>>, FALSE), GetDlmReplies,
                GET_DLM_RESP_SIZE, "g_state")
  /\ UNCHANGED <<a_loc, a_dev, chip_layout>>
  /\ CmdRest

\* decode the state, src/src/radfu.c:1427-1444
GetDlmResult ==
  /\ pc = "g_state"
  /\ \E cmd0 \in StackBytes :
     \E u \in {unpack_with_error(LastRx.bytes, LastRx.n,
                                 [i \in 1..GET_DLM_DATA_SIZE |-> 0], 0, cmd0)} :
     \E o \in unpack_into(u, GET_DLM_DATA_SIZE) :
       IF o = "aborted"
       THEN CmdReturn(134) /\ UNCHANGED a_loc
       ELSE IF u.ret < 0 \/ u.data_len < 1
       THEN CmdReturn(-1) /\ UNCHANGED a_loc
       ELSE /\ a_loc' = [a_loc EXCEPT !.current_dlm = u.data[1]]
            /\ CmdReturn(0)
  /\ UNCHANGED <<a_call, a_log, a_dev, chip_layout>>
  /\ CmdRest

CmdInit ==
  /\ pc = "a_idle"
  /\ CmdIdle
  /\ CodecIdle
  /\ chip_layout = [i \in 0..(MAX_AREAS - 1) |-> NoArea]
  /\ sel_area = 0
  /\ b_in = [op |-> "none", start |-> 0, size |-> 0]
  /\ b_out = BoundsResult(0, 0, 0)
  /\ OpenIdle
  /\ DlmIdle
  /\ FlashIdle

CmdNext ==
  \/ AuthCall
  \/ AuthRequest
  \/ AuthMac
  \/ AuthResult
  \/ InitializeCall
  \/ InitializeRequest
  \/ InitializeResult
  \/ AreasCall
  \/ AreasNoa
  \/ AreaQuery
  \/ AreasFinish
  \/ BaudCall
  \/ BaudApply
  \/ GetDlmCall
  \/ GetDlmResult

SpecCmd == CmdInit /\ [][CmdNext]_vars

(***************************************************************************)
(* Every operation that talks to the device, each from its own start:      *)
(* the handshake, the flash operations, the DLM transition and the         *)
(* single-command operations.                                              *)
(***************************************************************************)
LinkInit == OpenInit \/ FlashInit \/ DlmInit \/ CmdInit

LinkNext == OpenNext \/ FlashNext \/ DlmNext \/ CmdNext

SpecLink == LinkInit /\ [][LinkNext]_vars

(***************************************************************************)
(* main, src/src/main.c:733-960: one run of the tool from ra_dev_init to   *)
(* the exit of the process.  m_run.trace records, in order, the return of  *)
(* every component function main calls ("call"), every frame of a BAU      *)
(* exchange ("tx", "rx"), the release of the serial handle ("close") and   *)
(* the end of the process ("exit").  m_run.dev_rate is the rate the        *)
(* device's UART runs at: it changes when the device acknowledges a BAU    *)
(* request, and a request sent at another rate gets no answer.             *)
(***************************************************************************)
EXIT_SUCCESS == 0
EXIT_FAILURE == 1

Ev(ev, name, arg, ret, bytes) ==
  [ev |-> ev, name |-> name, arg |-> arg, ret |-> ret, bytes |-> bytes]

\* the options of a run: raw-UART mode or USB, -b (0 when absent, 14400 is
\* in no table), an ID code, --bank, --area (0x55 is no area kind), and the
\* command
MainOptions ==
  [uart_mode : BOOLEAN, baudrate : {0, 9600, 115200, 14400},
   use_auth : BOOLEAN, bank : {-1, 0}, area_koa : {-1, 16, 85},
   cmd : {"erase", "dlm"}]

\* ra_get_device_max_baudrate, src/src/radfu.c:739-790, returns one of these
DeviceMax == {115200, 1500000, 4000000}

\* ra_get_adapter_max_baudrate, src/src/port_macos.c:105-166: the rates of
\* some of the adapters of its table, and 115200 for an unknown one
AdapterMax == {115200, 1000000, 4000000}

\* ra_best_baudrate, src/src/raconnect.c:401-456
ra_best_baudrate(max) ==
  LET fit == {r \in SupportedRates : r <= max}
  IN  IF fit = {} THEN 9600
      ELSE CHOOSE r \in fit : \A q \in fit : q <= r

\* ra_find_area_by_koa, src/src/radfu.c:97-127: its return value
ra_find_area_by_koa(layout, koa) ==
  IF \E i \in 0..(MAX_AREAS - 1) :
       /\ ~(layout[i].sad = 0 /\ layout[i].ead = 0)
       /\ layout[i].koa = koa
  THEN 0 ELSE -1

\* what the device sends after a BAU request it has received at its own
\* rate: nothing, the acknowledgement, or an error
BaudAck == DeviceFrame(BAU_CMD, <<0>>)

LineReplies(speed, dev_rate) ==
  IF speed = dev_rate
  THEN {<<>>, BaudAck, DeviceFrame(BAU_CMD + STATUS_ERR, <<ERR_PROT>>)}
  ELSE {<<>>}

\* ra_set_baudrate(dev, baudrate), src/src/raconnect.c:458-517, as main
\* sees it: the return value, dev afterwards, the device's rate afterwards
\* and the frames exchanged
SetBaud(dev, dev_rate, baudrate) ==
  LET speed == baudrate_to_speed(baudrate)
      pkt == PackFrame(BAU_CMD, uint32_to_be(baudrate), FALSE)
      tx == Ev("tx", "BAU", baudrate, 0, pkt.bytes)
      failed(evs, rate) ==
        [ret |-> -1, dev |-> dev, dev_rate |-> rate, evs |-> evs]
      answered(reply, r, attrs_set) ==
        LET u == ra_unpack_pkt(r.buf, r.n, NullBuf, 0, 0)
            rate == IF reply = BaudAck THEN baudrate ELSE dev_rate
        IN  IF r.n < 7 THEN failed(<<tx>>, rate)
            ELSE IF ~baud_acked(u)
            THEN failed(<<tx, Ev("rx", "BAU", baudrate, -1, r.buf)>>, rate)
            ELSE IF ~attrs_set
            THEN failed(<<tx, Ev("rx", "BAU", baudrate, 0, r.buf)>>, rate)
            ELSE [ret |-> 0,
                  dev |-> [dev EXCEPT !.speed = speed, !.baudrate = baudrate],
                  dev_rate |-> rate,
                  evs |-> <<tx, Ev("rx", "BAU", baudrate, 0, r.buf)>>]
  IN  IF speed = B0 \/ pkt.ret < 0 THEN {failed(<<>>, dev_rate)}
      ELSE {failed(<<>>, dev_rate)}
             \cup UNION {{answered(reply, r, attrs_set) :
                            r \in CmdRecv(reply, BAUD_RESP_SIZE),
                            attrs_set \in BOOLEAN} :
                         reply \in LineReplies(dev.speed, dev_rate)}

\* ra_close, src/src/raconnect.c:160-173: m_run afterwards
ra_close(run, dev) ==
  IF run.fd < 0 THEN run
  ELSE LET reset == run.opt.uart_mode /\ dev.baudrate > 9600
           pkt == PackFrame(BAU_CMD, <<0, 0, 37, 128>>, FALSE)
       IN  [run EXCEPT
              !.trace = (IF reset
                         THEN Append(@, Ev("tx", "BAU", 9600, 0, pkt.bytes))
                         ELSE @) \o <<Ev("close", "close", 0, 0, <<>>)>>,
              !.dev_rate = IF reset /\ dev.speed = @ THEN 9600 ELSE @,
              !.fd = -1]

Called(run, name, arg, ret) ==
  [run EXCEPT !.trace = Append(@, Ev("call", name, arg, ret, <<>>))]

\* the process ends with this status
MainExit(run, status) ==
  /\ pc' = "m_exit"
  /\ a_ret' = status
  /\ m_run' = [run EXCEPT !.trace = Append(@, Ev("exit", "exit", 0, status, <<>>))]

\* ra_close(&dev); errx(EXIT_FAILURE, ...)
MainFail(run, dev) == MainExit(ra_close(run, dev), EXIT_FAILURE)

MainGoes(run, nextpc) ==
  /\ pc' = nextpc
  /\ m_run' = run
  /\ UNCHANGED a_ret

MainRest ==
  UNCHANGED <<codecVars, boundsVars, openVars, dlmVars, flashVars, a_call,
              a_loc, a_log>>

\* ra_dev_init and ra_open, src/src/main.c:733-738
MainOpen ==
  /\ pc = "m_idle"
  /\ \E opt \in MainOptions, ret \in {0, -1} :
       LET run == Called([m_run EXCEPT !.opt = opt,
                                       !.fd = IF ret = 0 THEN 3 ELSE -1],
                         "ra_open", 0, ret)
       IN  IF ret < 0 THEN MainExit(run, EXIT_FAILURE)
           ELSE MainGoes(run, "m_area")
  /\ a_dev' = FreshDev
  /\ MainRest

\* ra_get_area_info, --bank and --area, src/src/main.c:740-777
MainAreaInfo ==
  /\ pc = "m_area"
  /\ \E ret \in {0, -1}, noa \in {4, 5} :
       LET run == Called(m_run, "ra_get_area_info", 0, ret)
           dev == IF ret = 0 THEN [a_dev EXCEPT !.noa = noa] ELSE a_dev
           area_koa == IF m_run.opt.bank >= 0 THEN m_run.opt.bank
                       ELSE m_run.opt.area_koa
       IN  /\ a_dev' = dev
           /\ IF ret < 0 THEN MainFail(run, dev)
              ELSE IF m_run.opt.bank >= 0 /\ dev.noa <= 4 THEN MainFail(run, dev)
              ELSE IF area_koa >= 0
              THEN \E found \in {ra_find_area_by_koa(TestLayout, area_koa)} :
                     IF found < 0
                     THEN MainFail(Called(run, "ra_find_area_by_koa", area_koa,
                                          found), dev)
                     ELSE MainGoes(Called(run, "ra_find_area_by_koa", area_koa,
                                          found), "m_baud")
              ELSE MainGoes(run, "m_baud")
  /\ MainRest

\* where main goes after ra_set_baudrate(&dev, best), src/src/main.c:807-821
after_best_gives_up(ret) == IF ret = 0 THEN "m_rmb" ELSE "m_auth"

after_best(ret) == IF ret = 0 THEN "m_rmb" ELSE "m_fallback"

\* the baud rate: the explicit one, or in raw-UART mode the best one,
\* src/src/main.c:782-808
MainBaud ==
  /\ pc = "m_baud"
  /\ LET opt == m_run.opt IN
     IF opt.baudrate > 0 /\ opt.baudrate # 9600
     THEN \E o \in SetBaud(a_dev, m_run.dev_rate, opt.baudrate) :
            LET run == Called([m_run EXCEPT !.trace = @ \o o.evs,
                                            !.dev_rate = o.dev_rate],
                              "ra_set_baudrate", opt.baudrate, o.ret)
            IN  /\ a_dev' = o.dev
                /\ IF o.ret < 0 THEN MainFail(run, o.dev)
                   ELSE MainGoes(run, "m_auth")
     ELSE IF opt.uart_mode /\ opt.baudrate = 0
     THEN \E device_max \in DeviceMax, adapter_max \in AdapterMax :
            LET target == Min(device_max, adapter_max)
                best == ra_best_baudrate(target)
                run0 == Called(m_run, "ra_get_device_max_baudrate", 0, device_max)
            IN  IF best > 9600
                THEN \E o \in SetBaud(a_dev, m_run.dev_rate, best) :
                       /\ a_dev' = o.dev
                       /\ MainGoes(Called([run0 EXCEPT !.trace = @ \o o.evs,
                                                       !.dev_rate = o.dev_rate],
                                          "ra_set_baudrate", best, o.ret),
                                   after_best(o.ret))
                ELSE MainGoes(run0, "m_auth") /\ UNCHANGED a_dev
     ELSE MainGoes(m_run, "m_auth") /\ UNCHANGED a_dev
  /\ MainRest

\* the check of the link at the new rate, src/src/main.c:808-815
MainRmb ==
  /\ pc = "m_rmb"
  /\ \E ret \in {0, -1} :
       LET run == Called(m_run, "ra_get_rmb", 0, ret)
       IN  IF ret < 0 THEN MainFail(run, a_dev)
           ELSE MainGoes(run, "m_auth")
  /\ UNCHANGED a_dev
  /\ MainRest

\* the attempt at 115200 after the best rate has failed,
\* src/src/main.c:816-821
MainFallback ==
  /\ pc = "m_fallback"
  /\ \E o \in SetBaud(a_dev, m_run.dev_rate, 115200) :
       /\ a_dev' = o.dev
       /\ MainGoes(Called([m_run EXCEPT !.trace = @ \o o.evs,
                                        !.dev_rate = o.dev_rate],
                          "ra_set_baudrate", 115200, o.ret), "m_auth")
  /\ MainRest

\* the ID authentication, src/src/main.c:825-831
MainAuth ==
  /\ pc = "m_auth"
  /\ IF m_run.opt.use_auth
     THEN \E ret \in {0, -1} :
            LET run == Called(m_run, "ra_authenticate", 0, ret)
            IN  IF ret < 0 THEN MainFail(run, a_dev)
                ELSE MainGoes(run, "m_action")
     ELSE MainGoes(m_run, "m_action")
  /\ UNCHANGED a_dev
  /\ MainRest

\* what the command's function can end with: a return value, or for
\* ra_get_dlm, which may overrun resp_data (src/src/radfu.c:1410, 1428),
\* also the end of the process by abort
ActionOutcomes(cmd) == IF cmd = "dlm" THEN {0, -1, 134} ELSE {0, -1}

\* the command, ra_close and the exit status, src/src/main.c:833-959
MainAction ==
  /\ pc = "m_action"
  /\ \E ret \in ActionOutcomes(m_run.opt.cmd) :
       LET run == Called(m_run, m_run.opt.cmd, 0, ret)
       IN  IF ret = 134 THEN MainExit(run, 134)
           ELSE MainExit(ra_close(run, a_dev),
                         IF ret < 0 THEN EXIT_FAILURE ELSE EXIT_SUCCESS)
  /\ UNCHANGED a_dev
  /\ MainRest

MainInit ==
  /\ pc = "m_idle"
  /\ CodecIdle
  /\ BoundsIdle
  /\ OpenIdle
  /\ DlmIdle
  /\ FlashIdle
  /\ CmdIdle

MainNext ==
  \/ MainOpen
  \/ MainAreaInfo
  \/ MainBaud
  \/ MainRmb
  \/ MainFallback
  \/ MainAuth
  \/ MainAction

SpecMain == MainInit /\ [][MainNext]_vars

(***************************************************************************)
(* Claims about the frame codec, checked under SpecCodec                   *)
(***************************************************************************)

\* the frame in c_buf is the one ra_pack_pkt produced, handed over whole
Untouched == c_tamper = "none"

\* C3 as stated: for every cmd, every data of length <= 1024 and either value
\* of ack, unpacking the frame produced by ra_pack_pkt succeeds and returns
\* exactly (data, cmd).
C3_RoundTripAnyFrame ==
  (pc = "c_unpacked" /\ Untouched)
    => /\ c_un.ret = Len(c_in.data)
       /\ c_un.data = c_in.data
       /\ c_un.cmd = c_in.cmd

\* C3 as amended: for every cmd below 0x80, every data of length <= 1024 and
\* ack = true, unpacking the frame produced by ra_pack_pkt succeeds and
\* returns exactly (data, cmd); a frame packed with ack = false is rejected
\* as a protocol error and one whose cmd has bit 0x80 set as a device error.
C3_RoundTrip ==
  (pc = "c_unpacked" /\ Untouched)
    => /\ (c_in.ack /\ c_in.cmd < STATUS_ERR)
            => /\ c_un.ret = Len(c_in.data)
               /\ c_un.data_len = Len(c_in.data)
               /\ c_un.data = c_in.data
               /\ c_un.cmd = c_in.cmd
       /\ ~c_in.ack => (c_un.ret = -1 /\ c_un.errno = "EPROTO")
       /\ (c_in.ack /\ c_in.cmd >= STATUS_ERR)
            => (c_un.ret = -1 /\ c_un.errno = "EIO")

C3_Witness ==
  /\ pc = "c_unpacked"
  /\ Untouched
  /\ c_in.ack
  /\ c_in.cmd = WRI_CMD
  /\ Len(c_in.data) = MAX_DATA_LEN
  /\ c_un.ret = MAX_DATA_LEN
  /\ c_un.data = c_in.data

\* C4: given an error response (bit 0x80 of RES set) ra_unpack_pkt signals a
\* response error, delivers the payload and still yields the RES byte through
\* its cmd output, so that the caller's test of bit 0x80 of cmd tells a device
\* error from a frame error.
C4_ErrorResponseYieldsRes ==
  (pc = "c_unpacked" /\ Untouched /\ c_in.ack /\ BitSet(c_in.cmd, STATUS_ERR))
    => /\ c_un.ret = -1
       /\ c_un.errno = "EIO"
       /\ (Len(c_in.data) > 0 => c_un.data = c_in.data)
       /\ c_un.cmd = c_in.cmd
       /\ c_un.mcu_error

\* C5: ra_unpack_pkt returns success only for a buffer that starts with SOD
\* 0x81, whose length field is >= 1, whose declared frame (length field + 5
\* bytes) fits in buflen, whose ETX byte is 0x03 and whose SUM byte makes the
\* bytes LNH..SUM add up to 0 mod 256; and it reads no byte at an index
\* >= buflen, whatever the buffer.
C5_UnpackValidates ==
  pc = "c_unpacked"
    => /\ \A i \in c_un.reads : i < c_buflen
       /\ c_un.ret >= 0
            => LET ln == c_buf[2] * 256 + c_buf[3] IN
               /\ c_buf[1] = SOD_ACK
               /\ ln >= 1
               /\ ln + 5 <= c_buflen
               /\ c_buf[ln + 5] = ETX
               /\ c_buf[ln + 4]
                    = (256 - (SumRange(c_buf, 2, ln + 3) % 256)) % 256
               /\ c_un.ret = ln - 1

\* a frame whose length field declares more bytes than buflen is rejected
C5_Witness ==
  /\ pc = "c_unpacked"
  /\ c_tamper = "len"
  /\ c_buflen >= 6
  /\ c_buf[1] = SOD_ACK
  /\ c_un.ret = -1
  /\ c_un.errno = "EINVAL"

\* C6: in every frame produced by ra_pack_pkt, SUM + LNH + LNL + CMD + the
\* DATA bytes is 0 mod 256: SUM is the two's complement of the 8-bit sum of
\* LNH, LNL, CMD and DATA.
C6_ChecksumZero ==
  (pc = "c_packed" /\ Untouched)
    => LET n == c_pack.ret IN
       /\ n = Len(c_in.data) + 6
       /\ c_buf[2] * 256 + c_buf[3] = Len(c_in.data) + 1
       /\ c_buf[4] = c_in.cmd
       /\ SubSeq(c_buf, 5, n - 2) = c_in.data
       /\ SumRange(c_buf, 2, n - 1) % 256 = 0

C6_Witness ==
  /\ pc = "c_packed"
  /\ Untouched
  /\ Len(c_in.data) = 255
  /\ c_buf[2] = 1
  /\ c_buf[3] = 0
  /\ c_buf[c_pack.ret - 1] # 0

(***************************************************************************)
(* Claims about the boundary arithmetic, checked under SpecBounds          *)
(***************************************************************************)

\* the alignment unit the operation of the last call uses, in its area
UnitOf(op, a) ==
  CASE op = "erase" -> a.eau
    [] op = "write" -> a.wau
    [] op = "read" -> a.rau
    [] op = "crc" -> a.cau
    [] OTHER -> 0

\* C2: for every operation op in {erase, write, read, CRC} and every
\* (start, size) for which the boundary computation succeeds with alignment
\* unit A > 0 of the area containing start: start mod A = 0, end >= start,
\* end <= EAD, (end - start + 1) mod A = 0, and for reads (end + 1) mod RAU = 0
\* or end = EAD; a size that would give end > EAD is rejected.
C2_BoundsInvariant ==
  pc = "b_done"
    => LET start == b_in.start
           size == b_in.size
           end == b_out.end
           a == chip_layout[b_out.sel_area]
           A == UnitOf(b_in.op, a)
           area == find_area_for_address(chip_layout, start)
       IN  /\ b_out.ret = 0
                => /\ A > 0
                   /\ start % A = 0
                   /\ end >= start
                   /\ end <= a.ead
                   /\ (end - start + 1) % A = 0
                   /\ b_in.op = "read" => ((end + 1) % a.rau = 0 \/ end = a.ead)
           /\ (area >= 0 /\ start + size - 1 > chip_layout[area].ead)
                => b_out.ret = -1


(***************************************************************************)
(* Claims about the connection handshake (SpecOpen)                        *)
(***************************************************************************)
BootCodes == {BOOT_CODE_M4, BOOT_CODE_M33, BOOT_CODE_M85}

\* C7: ra_open succeeds only in one of two ways: the inquiry's first byte
\* was received and is not 0x00 (the device is already in command mode), or
\* a sync attempt was echoed with 0x00 and afterwards a confirm attempt
\* received one of the boot codes.  No 0x55 is sent and the confirm loop is
\* not entered before a sync attempt was echoed, and no sync triple is sent
\* and the sync loop is not entered when the inquiry's first byte was
\* non-zero.
C7_OpenSuccessPaths ==
  /\ o_ret = 0 =>
       \/ /\ o_obs.connected
          /\ o_obs.first \notin {NULL, SYNC_BYTE}
          /\ o_tx.sync = 0
          /\ o_tx.confirm = 0
       \/ /\ ~o_obs.connected
          /\ o_obs.first \in {NULL, SYNC_BYTE}
          /\ o_obs.sync_ok
          /\ o_obs.boot \in BootCodes
  /\ (o_tx.confirm > 0 \/ pc = "o_confirm" \/ o_obs.boot # NULL) => o_obs.sync_ok
  /\ (o_tx.sync > 0 \/ pc = "o_sync") => o_obs.first \in {NULL, SYNC_BYTE}
  /\ o_obs.connected => o_tx.sync = 0 /\ o_tx.confirm = 0

C7_Witness ==
  /\ o_ret = 0
  /\ ~o_obs.connected
  /\ o_obs.sync_ok
  /\ o_tx.sync > 1
  /\ o_obs.boot = BOOT_CODE_M33

\* C8 as stated: confirm accepts only 0xC3, 0xC5 or 0xC6, and a confirm
\* attempt that receives any other byte is fatal: once such a byte was
\* received ra_open does not succeed.
C8_OtherByteFatal ==
  /\ (o_ret = 0 /\ ~o_obs.connected) => o_obs.boot \in BootCodes
  /\ o_obs.bad_confirm => o_ret # 0

\* C8 amended: confirm sends 0x55 at most max_tries times and accepts only
\* 0xC3, 0xC5 or 0xC6; an attempt that receives another byte or nothing is
\* repeated, and ra_open fails through confirm only when max_tries attempts
\* have passed and none received a boot code; until a boot code is received
\* ra_open has not succeeded.
C8_ConfirmRetries ==
  /\ o_tx.confirm <= MAX_TRIES
  /\ (o_ret = 0 /\ ~o_obs.connected) => o_obs.boot \in BootCodes
  /\ (o_ret = -1 /\ o_obs.sync_ok) => o_obs.boot = NULL /\ o_i = MAX_TRIES
  /\ pc = "o_confirm" => o_obs.boot = NULL /\ o_ret = 1 /\ o_i <= MAX_TRIES

C8_Witness ==
  /\ o_ret = -1
  /\ o_obs.sync_ok
  /\ o_obs.bad_confirm
  /\ o_tx.confirm = MAX_TRIES

\* C9: sync sends its three zero bytes at most max_tries (20) times and
\* leaves the loop at the first attempt that reads back 0x00; while no
\* attempt was echoed no 0x55 is sent and the confirm loop is not entered,
\* and unless the inquiry found command mode ra_open does not succeed.
C9_SyncBounded ==
  /\ MAX_TRIES = 20
  /\ o_tx.sync <= MAX_TRIES
  /\ o_obs.sync_ok => pc # "o_sync"
  /\ ~o_obs.sync_ok => o_tx.confirm = 0 /\ pc # "o_confirm"
  /\ (~o_obs.sync_ok /\ ~o_obs.connected) => o_ret # 0
  /\ (pc = "o_sync") => o_i <= MAX_TRIES /\ o_ret = 1

C9_Witness ==
  /\ pc = "o_closed"
  /\ o_ret = -1
  /\ o_tx.sync = MAX_TRIES
  /\ ~o_obs.sync_ok
  /\ o_tx.confirm = 0

\* C10: when ra_open returns after the inquiry found the device in command
\* mode, every byte of the response frame the device emitted has been
\* consumed: the host's input buffer is empty.
C10_DrainsWholeFrame ==
  (pc = "o_done" /\ o_obs.connected /\ o_obs.reply = "frame") => rx = <<>>

(***************************************************************************)
(* Claims about the DLM transition (SpecDlm)                               *)
(***************************************************************************)
IsTransitFrame(f) == Len(f) >= 8 /\ f[4] = DLM_TRANSIT_CMD

\* C1: ra_dlm_transit sends a DLM_TRANSIT frame only for a pair (current,
\* destination) of the allowed list; for a different pair of distinct
\* states it sends no such frame and returns failure.
C1_TransitOnlyAllowed ==
  /\ \A i \in 1..Len(d_sent) :
       IsTransitFrame(d_sent[i]) =>
         <<d_sent[i][5], d_sent[i][6]>> \in AllowedTransitions
  /\ (d_cur # NULL /\ d_cur # d_dest /\ <<d_cur, d_dest>> \notin AllowedTransitions)
       => /\ \A i \in 1..Len(d_sent) : ~IsTransitFrame(d_sent[i])
          /\ pc = "d_done" => d_ret = -1

(***************************************************************************)
(* Claims about the flash operations, checked under SpecFlash.             *)
(***************************************************************************)
\* the REA requests the log holds
ReaEntries == {k \in 1..Len(f_log) : f_log[k].cmd = REA_CMD}

\* the number of bytes a logged request covers
Covered(e) == e.hi - e.lo + 1

\* C11: every REA request sent by read, verify and blank-check covers an
\* address range of at least 1 and at most 1024 bytes.
C11_ReaAtMostChunk ==
  \A k \in ReaEntries : Covered(f_log[k]) >= 1 /\ Covered(f_log[k]) <= CHUNK_SIZE

\* a verify that ran through three requests, the last one shorter
C11_Witness ==
  /\ pc = "f_done"
  /\ f_call.op = "verify"
  /\ Len(f_log) = 3
  /\ ReaEntries = {1, 2, 3}
  /\ Covered(f_log[1]) = CHUNK_SIZE
  /\ Covered(f_log[3]) < CHUNK_SIZE

\* the least c with c * 1024 >= n
CeilChunks(n) ==
  CHOOSE c \in 0..(n + 1) : c * CHUNK_SIZE >= n /\ (c - 1) * CHUNK_SIZE < n

\* a plain read (not the read-back inside ra_write) is running or has ended
InRead == f_call.op = "read" /\ pc \in {"f_read", "f_done"} /\ f_ret.ret # -1

\* C12: a read of the RAU-aligned range [start, end] sends REA requests whose
\* ranges begin at start, follow each other without gap or overlap in
\* ascending order, and are 1024 bytes long except possibly the last; the
\* payloads received so far, concatenated, are the flash content from start
\* on; and when the loop has ended there were exactly
\* ceil((end - start + 1) / 1024) requests, the last one ending at end.
C12_ReadChunks ==
  InRead /\ f_loc.nr_chunks > 0 =>
    /\ \A k \in 1..Len(f_log) :
         /\ f_log[k].cmd = REA_CMD
         /\ f_log[k].lo = (IF k = 1 THEN f_loc.start ELSE f_log[k - 1].hi + 1)
         /\ f_log[k].hi >= f_log[k].lo
         /\ f_log[k].hi <= f_loc.end
         /\ (f_log[k].hi # f_loc.end => Covered(f_log[k]) = CHUNK_SIZE)
         /\ Covered(f_log[k]) <= CHUNK_SIZE
    /\ f_buf = FlashRange(flash, f_loc.start, f_loc.start + Len(f_buf) - 1)
    /\ Len(f_buf) = (IF f_log = <<>> THEN 0
                     ELSE f_log[Len(f_log)].hi - f_loc.start + 1)
    /\ (f_loc.i >= f_loc.nr_chunks =>
          /\ Len(f_log) = CeilChunks(f_loc.end - f_loc.start + 1)
          /\ f_log[Len(f_log)].hi = f_loc.end)

\* the read of 3000 bytes from address 0 has ended: 1024, 1024 and 952 bytes
C12_Witness ==
  /\ pc = "f_done"
  /\ f_call.op = "read"
  /\ f_ret.ret = 0
  /\ f_loc.start = 0
  /\ f_loc.end = 2999
  /\ Len(f_log) = 3
  /\ Covered(f_log[1]) = 1024
  /\ Covered(f_log[2]) = 1024
  /\ Covered(f_log[3]) = 952
  /\ Len(f_buf) = 3000

\* a write has sent its header: the frames of the log that belong to it
InWrite == f_call.op = "write" /\ f_log # <<>>

WriteFrames == {k \in 1..Len(f_log) : f_log[k].cmd = WRI_CMD}

\* C13: ra_write first sends one WRI header frame carrying {start, end}; a
\* data frame is sent only after the frame before it (the header, or the
\* previous chunk) got a non-error acknowledgement; the k-th data frame
\* carries min(1024, remaining) bytes; and after a short or error response
\* the write has failed and no frame follows.
C13_WriteSequence ==
  InWrite =>
    /\ f_log[1].cmd = WRI_CMD
    /\ f_log[1].sod = SOD_CMD
    /\ f_log[1].len = 8
    /\ f_log[1].lo = f_w.start
    /\ f_log[1].hi = f_w.end
    /\ \A k \in 2..Len(f_log) :
         /\ f_log[k - 1].answer = "ok"
         /\ (k \in WriteFrames =>
               /\ f_log[k].sod = SOD_ACK
               /\ f_log[k].len = Min(CHUNK_SIZE,
                                     (f_w.end - f_w.start + 1) - (k - 2) * CHUNK_SIZE)
               /\ f_log[k].len > 0)
    /\ (f_log[Len(f_log)].answer # "ok" => pc = "f_done" /\ f_ret.ret = -1)

\* a write of three chunks that the device stopped at the second one
C13_Witness ==
  /\ pc = "f_done"
  /\ f_call.op = "write"
  /\ f_ret.ret = -1
  /\ Len(f_log) = 3
  /\ f_log[2].len = CHUNK_SIZE
  /\ f_log[3].answer \in {"err", "short"}
  /\ f_w.end - f_w.start + 1 > 2 * CHUNK_SIZE

\* the bytes a write of the parsed file puts into the range: the file's
\* bytes in order, then 0x00
Padded(file, n) == [k \in 1..n |-> IF k <= Len(file) THEN file[k] ELSE 0]

\* C14: the data frames of a write carry the bytes of the parsed file in
\* order followed by 0x00 padding: what has been sent so far is a prefix of
\* that, and when the loop has ended exactly end - start + 1 bytes were sent.
C14_WritePayload ==
  InWrite =>
    /\ Len(f_w.data) <= f_w.end - f_w.start + 1
    /\ f_w.data = Padded(f_file.data, Len(f_w.data))
    /\ (f_w.done => Len(f_w.data) = f_w.end - f_w.start + 1)

\* a finished write of a file shorter than its aligned range
C14_Witness ==
  /\ f_call.op = "write"
  /\ f_w.done
  /\ f_ret.ret = 0
  /\ Len(f_file.data) < f_w.end - f_w.start + 1
  /\ Len(f_w.data) = f_w.end - f_w.start + 1
  /\ f_w.data[Len(f_w.data)] = 0

\* ra_write has compared the read-back with the parsed file and returned
Compared ==
  /\ pc = "f_done"
  /\ f_call.op = "write"
  /\ f_call.verify
  /\ f_ret.report.kind \in {"verify_complete", "verify_failed"}

\* the read-back holds a byte that is not the file's byte at that offset
ReadBackDiffers ==
  \E k \in 1..Min(Len(f_buf), Len(f_file.data)) : f_buf[k] # f_file.data[k]

\* C15: when verify-after-write was requested and the bytes read back from
\* the written range differ from the parsed file, ra_write returns an error;
\* it returns 0 only when the read-back matches the parsed file.
C15_VerifyMismatchFails ==
  Compared /\ ReadBackDiffers => f_ret.ret < 0

\* a read of the range a successful write has just written has ended well,
\* on a device that stores what it is sent
ReadBackDone ==
  /\ pc = "f_done"
  /\ f_call.op = "read"
  /\ f_w.done
  /\ f_ret.ret = 0
  /\ flash.keeps

\* C16: after a successful write on a device that stores exactly what it is
\* sent, a read of the written range [start, end] returns exactly the bytes
\* the write's data frames carried.
C16_ReadAfterWrite ==
  ReadBackDone =>
    /\ f_loc.start = f_w.start
    /\ f_loc.end = f_w.end
    /\ f_buf = f_w.data

\* the read-back of a write of more than two chunks
C16_Witness ==
  /\ ReadBackDone
  /\ Len(f_buf) > 2 * CHUNK_SIZE
  /\ Len(f_log) = 3
  /\ f_buf[Len(f_buf)] = f_file.data[Len(f_buf)]

\* the addresses of the verified range whose flash byte is not the file's
\* byte at offset address - start
Mismatches ==
  {a \in f_loc.start..f_loc.end :
     /\ a - f_loc.start < Len(f_file.data)
     /\ FlashAt(flash, a) # f_file.data[a - f_loc.start + 1]}

\* the addresses of the verified range beyond the file's end that are not
\* erased
BeyondFile ==
  {a \in f_loc.start..f_loc.end :
     /\ a - f_loc.start >= Len(f_file.data)
     /\ FlashAt(flash, a) # ERASED}

VerifyEnded == pc = "f_done" /\ f_call.op = "verify"

\* C17: when verify fails on a content mismatch, the reported address is the
\* lowest address of the range whose flash byte differs from the file's
\* byte, the reported values are the two bytes at that address, and the last
\* REA request sent is the one whose range contains that address.
C17_FirstMismatch ==
  VerifyEnded /\ f_ret.report.kind = "mismatch" =>
    /\ f_ret.ret = -1
    /\ Mismatches # {}
    /\ f_ret.report.addr = MinOf(Mismatches)
    /\ f_ret.report.flash = FlashAt(flash, f_ret.report.addr)
    /\ f_ret.report.file = f_file.data[f_ret.report.addr - f_loc.start + 1]
    /\ f_log[Len(f_log)].lo <= f_ret.report.addr
    /\ f_ret.report.addr <= f_log[Len(f_log)].hi

\* a mismatch in the first of two chunks, with a second one in the last
C17_Witness ==
  /\ VerifyEnded
  /\ f_ret.report.kind = "mismatch"
  /\ f_loc.nr_chunks = 2
  /\ Len(f_log) = 1
  /\ Cardinality(Mismatches) = 2
  /\ f_ret.report.addr = f_loc.start + 1

\* C18: verify succeeds only if every flash byte of the RAU-aligned range
\* that lies beyond the end of the file is 0xFF; a report of such a byte
\* names the lowest one and comes with a failure.
C18_BeyondFileErased ==
  /\ VerifyEnded /\ f_ret.ret = 0 => BeyondFile = {}
  /\ VerifyEnded /\ f_ret.report.kind = "beyond" =>
       /\ f_ret.ret = -1
       /\ BeyondFile # {}
       /\ f_ret.report.addr = MinOf(BeyondFile)

\* the file matches and the second byte behind it is 0x00
C18_Witness ==
  /\ VerifyEnded
  /\ f_ret.ret = -1
  /\ f_ret.report.kind = "beyond"
  /\ Mismatches = {}
  /\ f_ret.report.addr = f_loc.start + Len(f_file.data) + 1
  /\ f_ret.report.flash = 0

\* the addresses of the checked range that are not erased
NotBlank == {a \in f_loc.start..f_loc.end : FlashAt(flash, a) # ERASED}

BlankEnded == pc = "f_done" /\ f_call.op = "blank"

\* C19: blank-check succeeds only if every byte of [start, end] is 0xFF, and
\* when it fails on content it reports the lowest address of the range that
\* holds another byte, with that byte's value.
C19_BlankCheck ==
  /\ BlankEnded /\ f_ret.ret = 0 => NotBlank = {}
  /\ BlankEnded /\ f_ret.report.kind = "not_blank" =>
       /\ f_ret.ret = -1
       /\ NotBlank # {}
       /\ f_ret.report.addr = MinOf(NotBlank)
       /\ f_ret.report.flash = FlashAt(flash, f_ret.report.addr)

\* an erased range with two programmed bytes: the first one is reported
C19_Witness ==
  /\ BlankEnded
  /\ f_ret.report.kind = "not_blank"
  /\ Cardinality(NotBlank) = 2
  /\ f_ret.report.addr = f_loc.start + 2
  /\ f_ret.report.flash = 0

\* the start address the operation works with: verify and write take the
\* file's address when none was given
EffectiveStart ==
  IF f_call.op \in {"verify", "write"} /\ f_call.start = 0 /\ f_file.has_addr
  THEN f_file.base_addr
  ELSE f_call.start

\* the areas of the chip that contain address a
AreasOf(a) ==
  {i \in 0..(MAX_AREAS - 1) :
     /\ ~(chip_layout[i].sad = 0 /\ chip_layout[i].ead = 0)
     /\ chip_layout[i].sad <= a
     /\ a <= chip_layout[i].ead}

\* the alignment unit of area i for the operation
UnitFor(op, i) ==
  CASE op = "erase" -> chip_layout[i].eau
    [] op = "write" -> chip_layout[i].wau
    [] op = "crc" -> chip_layout[i].cau
    [] OTHER -> chip_layout[i].rau

\* start lies in no area, or the unit of its area is 0, or start is not a
\* multiple of it
BadStart ==
  /\ f_call.op # "none"
  /\ \/ AreasOf(EffectiveStart) = {}
     \/ \E i \in AreasOf(EffectiveStart) :
          /\ \A j \in AreasOf(EffectiveStart) : i <= j
          /\ \/ UnitFor(f_call.op, i) = 0
             \/ EffectiveStart % UnitFor(f_call.op, i) # 0

\* C20: erase, write, CRC, read, verify and blank-check called with a start
\* that lies in no known area, in an area whose alignment unit for the
\* operation is 0, or that is not a multiple of that unit, return failure
\* without having sent a frame.
C20_RejectedBeforeWire ==
  BadStart => pc = "f_done" /\ f_ret.ret = -1 /\ f_log = <<>>

\* an erase in the area without erase unit, refused
C20_Witness ==
  /\ BadStart
  /\ pc = "f_done"
  /\ f_call.op = "erase"
  /\ f_call.start = ConfigBase
  /\ UnitFor("erase", 2) = 0
  /\ f_ret.ret = -1

(***************************************************************************)
(* Further claims about ra_dlm_transit, checked under SpecDlm.             *)
(***************************************************************************)
\* ra_dlm_transit has returned after it sent the transit request
TransitAnswered ==
  /\ pc = "d_done"
  /\ Len(d_sent) = 2
  /\ IsTransitFrame(d_sent[2])

\* C24: when fewer than 7 bytes answer the DLM_TRANSIT request, ra_dlm_transit
\* returns success if the destination is LCK_BOOT and failure for every other
\* destination.
C24_NoReplyOnlyLckBoot ==
  TransitAnswered /\ d_resp.n < 7 =>
    /\ d_ret \in {0, -1}
    /\ (d_ret = 0 <=> d_dest = DLM_STATE_LCK_BOOT)

\* six bytes answered a transit to LCK_BOOT: success
C24_Witness ==
  /\ TransitAnswered
  /\ d_resp.n = 6
  /\ d_dest = DLM_STATE_LCK_BOOT
  /\ d_ret = 0

(***************************************************************************)
(* Further claims about the boundary arithmetic, checked under SpecBounds. *)
(***************************************************************************)
\* the least number of units of A bytes that hold size bytes
CeilUnits(size, A) == IF size % A = 0 THEN size \div A ELSE size \div A + 1

\* C21: when the boundary computation of erase, write or CRC succeeds, the
\* inclusive end address is start + ceil(size / A) * A - 1, A being the EAU,
\* WAU or CAU of the area that contains start.
C21_EndIsSmallestAligned ==
  pc = "b_done" /\ b_in.op \in {"erase", "write", "crc"} /\ b_out.ret = 0
    => LET area == find_area_for_address(chip_layout, b_in.start)
           A == UnitOf(b_in.op, chip_layout[area])
       IN  /\ area >= 0
           /\ A > 0
           /\ b_out.end = b_in.start + CeilUnits(b_in.size, A) * A - 1

\* an erase of two units whose size is more than one unit and not a
\* multiple of the unit
C21_Witness ==
  /\ pc = "b_done"
  /\ b_in.op = "erase"
  /\ b_out.ret = 0
  /\ b_in.size > chip_layout[b_out.sel_area].eau
  /\ b_in.size % chip_layout[b_out.sel_area].eau # 0
  /\ b_out.end - b_in.start + 1 = 2 * chip_layout[b_out.sel_area].eau

\* the entries of the area map that are in use and contain addr
Holders(layout, addr) ==
  {i \in 0..(MAX_AREAS - 1) :
     /\ ~(layout[i].sad = 0 /\ layout[i].ead = 0)
     /\ layout[i].sad <= addr
     /\ addr <= layout[i].ead}

\* C29: find_area_for_address returns the one area whose inclusive range
\* [sad, ead] contains the address, and not_found (-1) when no area does;
\* with the areas [0, 0x7FFFF] and [0x08000000, 0x08001FFF] the address
\* 0x7FFFF is in area 0, 0x80000 is in no area and 0x08000000 is in area 1.
C29_FindArea ==
  pc = "b_done"
    => LET i == find_area_for_address(chip_layout, b_in.start)
           H == Holders(chip_layout, b_in.start)
       IN  /\ H # {} => H = {i} /\ b_out.sel_area = i
           /\ H = {} => i = -1 /\ b_out.ret = -1
           /\ b_in.start = 524287 => i = 0
           /\ b_in.start = 524288 => i = -1
           /\ b_in.start = 134217728 => i = 1

\* a call whose start is the first address past the code flash
C29_Witness ==
  /\ pc = "b_done"
  /\ b_in.start = chip_layout[0].ead + 1
  /\ Holders(chip_layout, b_in.start) = {}
  /\ b_out.ret = -1

(***************************************************************************)
(* Claims about the single-command operations, checked under SpecCmd.      *)
(***************************************************************************)
\* the frames the host has sent, in order
Sent == SelectSeq(a_log, LAMBDA e : e.ev = "tx")

\* a command frame with opcode 0x30: SOD 0x01, then the length, then 0x30
IsAuthRequest(f) == f[1] = SOD_CMD /\ f[4] = DLM_AUTH_CMD

\* the data bytes of a frame: what lies between the opcode and SUM, ETX
PayloadOf(f) == SubSeq(f, 5, Len(f) - 2)

AuthPairs ==
  {<<DLM_STATE_NSECSD, DLM_STATE_SSD>>, <<DLM_STATE_DPL, DLM_STATE_NSECSD>>,
   <<DLM_STATE_SSD, DLM_STATE_RMA_REQ>>, <<DLM_STATE_DPL, DLM_STATE_RMA_REQ>>}

\* the DLM state the device reported in its response to the state request
ReportedDlm == a_log[2].bytes[5]

\* C22: ra_dlm_auth sends an AUTH request, opcode 0x30 with the payload
\* {SDLM, DDLM, CHCT}, only when (current state, destination) is NSECSD->SSD,
\* DPL->NSECSD, SSD->RMA_REQ or DPL->RMA_REQ; for any other pair with
\* current # destination it fails and no AUTH frame is sent.
C22_AuthOnlyKeyedPairs ==
  a_call.op = "auth"
    => /\ \A k \in 1..Len(Sent) :
            IsAuthRequest(Sent[k].bytes)
              => /\ <<ReportedDlm, a_call.dest>> \in AuthPairs
                 /\ a_loc.current_dlm = ReportedDlm
                 /\ PayloadOf(Sent[k].bytes) = <<ReportedDlm, a_call.dest, 0>>
       /\ pc = "a_done" /\ a_loc.current_dlm # NULL
             /\ a_loc.current_dlm # a_call.dest
             /\ <<a_loc.current_dlm, a_call.dest>> \notin AuthPairs
            => a_ret = -1 /\ \A k \in 1..Len(Sent) : ~IsAuthRequest(Sent[k].bytes)

\* an AUTH request for DPL -> RMA_REQ is on the wire
C22_Witness ==
  /\ a_call.op = "auth"
  /\ a_call.dest = DLM_STATE_RMA_REQ
  /\ a_loc.current_dlm = DLM_STATE_DPL
  /\ Len(Sent) = 2
  /\ IsAuthRequest(Sent[2].bytes)

\* a response frame that is no error: SOD 0x81 and bit 7 of RES clear
IsOkResponse(e) ==
  /\ e.ev = "rx"
  /\ e.n >= 7
  /\ e.bytes[1] = SOD_ACK
  /\ ~BitSet(e.bytes[4], STATUS_ERR)

\* the continuation frame that carries the MAC: SOD 0x81, opcode 0x30
IsMacFrame(f) == f[1] = SOD_ACK /\ f[4] = DLM_AUTH_CMD

\* the run has sent an AUTH request
AuthAsked == Len(Sent) >= 2 /\ IsAuthRequest(Sent[2].bytes)

\* C23: a successful ra_dlm_auth run has put on the wire, in this order, the
\* AUTH request (SOD 0x01, payload {SDLM, DDLM, 0x00}), received a challenge
\* of at least 16 bytes, sent exactly one continuation frame (SOD 0x81,
\* opcode 0x30) carrying the 32-byte HMAC-SHA256(key, challenge || 32 x 0x00)
\* and received the final status; the MAC frame is never sent unless a
\* non-error challenge of at least 16 bytes was received, and success is
\* reported only after a final non-error status frame.
C23_AuthExchange ==
  a_call.op = "auth" /\ AuthAsked
    => /\ \A k \in 1..Len(Sent) :
            IsMacFrame(Sent[k].bytes)
              => /\ k = 3
                 /\ IsOkResponse(a_log[4])
                 /\ Len(PayloadOf(a_log[4].bytes)) >= 16
                 /\ PayloadOf(Sent[k].bytes)
                      = Digest(a_call.key,
                               SubSeq(PayloadOf(a_log[4].bytes), 1, 16)
                                 \o [i \in 1..32 |-> 0])
       /\ pc = "a_done" /\ a_ret = 0
            => /\ Len(a_log) = 6
               /\ \A k \in 1..3 : a_log[2 * k - 1].ev = "tx" /\ a_log[2 * k].ev = "rx"
               /\ PayloadOf(Sent[2].bytes) = <<ReportedDlm, a_call.dest, 0>>
               /\ IsMacFrame(Sent[3].bytes)
               /\ IsOkResponse(a_log[6])

\* a command frame with opcode 0x50
IsIniRequest(f) == f[1] = SOD_CMD /\ f[4] = INI_CMD

\* C25: ra_initialize sends the INI request only when the DLM state just
\* read from the device is SSD, NSECSD or DPL, and then with the payload
\* {SDLM = that state, DDLM = SSD}; from CM or any other state it fails
\* without sending an INI frame.
C25_InitializeOnlyFromOpenStates ==
  a_call.op = "initialize"
    => /\ \A k \in 1..Len(Sent) :
            IsIniRequest(Sent[k].bytes)
              => /\ ReportedDlm \in {DLM_STATE_SSD, DLM_STATE_NSECSD, DLM_STATE_DPL}
                 /\ PayloadOf(Sent[k].bytes) = <<ReportedDlm, DLM_STATE_SSD>>
       /\ pc = "a_done" /\ a_loc.current_dlm # NULL
             /\ a_loc.current_dlm
                  \notin {DLM_STATE_SSD, DLM_STATE_NSECSD, DLM_STATE_DPL}
            => a_ret = -1 /\ \A k \in 1..Len(Sent) : ~IsIniRequest(Sent[k].bytes)

\* an INI request from DPL is on the wire
C25_Witness ==
  /\ a_call.op = "initialize"
  /\ a_loc.current_dlm = DLM_STATE_DPL
  /\ Len(Sent) = 2
  /\ IsIniRequest(Sent[2].bytes)
  /\ PayloadOf(Sent[2].bytes) = <<DLM_STATE_DPL, DLM_STATE_SSD>>

\* a command frame with opcode 0x3B
IsAreRequest(f) == f[1] = SOD_CMD /\ f[4] = ARE_CMD

\* the ARE requests the host has sent, in order
AreRequests == SelectSeq(Sent, LAMBDA e : IsAreRequest(e.bytes))

\* NOA as the signature response carries it: byte 4 of its data
ReportedNoa == a_log[2].bytes[9]

\* the response received for the k-th frame sent
ResponseTo(k) == a_log[2 * k]

\* C28: after a successful area-map query on a device whose signature
\* reports NOA = n, 1 <= n <= 8, exactly n ARE requests have been sent, with
\* the 1-byte index payloads 0, 1, ..., n-1 in ascending order, and entry i
\* of the area map equals the 25-byte descriptor (KOA, SAD, EAD, EAU, WAU,
\* RAU, CAU, big-endian) decoded from the response to index i.
C28_AreaMapComplete ==
  (/\ a_call.op = "areas" /\ pc = "a_done" /\ a_ret = 0
   /\ a_log[2].n >= 12
   /\ ReportedNoa \in 1..8)
    => /\ Len(AreRequests) = ReportedNoa
       /\ \A k \in 1..Len(AreRequests) :
            PayloadOf(AreRequests[k].bytes) = <<k - 1>>
       /\ \A i \in 0..(ReportedNoa - 1) :
            /\ i \in DOMAIN chip_layout
            /\ Len(a_log) >= 2 * (i + 2)
            /\ Descriptor(chip_layout[i]) = PayloadOf(ResponseTo(i + 2).bytes)

\* a command frame with opcode 0x34
IsBauRequest(f) == f[1] = SOD_CMD /\ f[4] = BAU_CMD

\* the sum of the bytes f[lo..hi]
RECURSIVE ByteSum(_, _, _)
ByteSum(f, lo, hi) == IF lo > hi THEN 0 ELSE f[lo] + ByteSum(f, lo + 1, hi)

\* a whole response frame that is no error: SOD 0x81, the length field
\* counts RES and the data, LNH + LNL + RES + data + SUM is 0 modulo 256,
\* ETX closes it, and bit 7 of RES is clear
IsAcknowledgement(e) ==
  /\ e.ev = "rx"
  /\ e.n >= 7
  /\ e.bytes[1] = SOD_ACK
  /\ e.bytes[2] * 256 + e.bytes[3] = e.n - 5
  /\ ByteSum(e.bytes, 2, e.n - 1) % 256 = 0
  /\ e.bytes[e.n] = ETX
  /\ ~BitSet(e.bytes[4], STATUS_ERR)

FlashNeverResends ==
  /\ \A k \in 1..(Len(f_log) - 1) : f_log[k].answer = "ok"
  /\ \A j, k \in 1..Len(f_log) :
       /\ j < k
       /\ f_log[j].sod = SOD_CMD /\ f_log[k].sod = SOD_CMD
       /\ f_log[j].cmd = f_log[k].cmd
       /\ f_log[j].len = 8 /\ f_log[k].len = 8
       => <<f_log[j].lo, f_log[j].hi>> # <<f_log[k].lo, f_log[k].hi>>

\* flash operations: the operation whose last frame got no whole non-error
\* response has failed
FlashFailsAfterBadResponse ==
  pc = "f_done" /\ Len(f_log) >= 1 /\ f_log[Len(f_log)].answer # "ok"
    => f_ret.ret < 0

\* single-command operations: no frame is sent twice, and a response that
\* another frame follows was a whole non-error frame
CmdNeverResends ==
  /\ \A j, k \in 1..Len(Sent) : j < k => Sent[j].bytes # Sent[k].bytes
  /\ \A k \in 1..(Len(a_log) - 1) :
       a_log[k].ev = "rx" => IsAcknowledgement(a_log[k])

CmdFailsAfterBadResponse ==
  pc = "a_done" /\ Len(a_log) >= 1 /\ ~IsAcknowledgement(a_log[Len(a_log)])
    => a_ret # 0

\* ra_dlm_transit: at most the state request and the transit request, once
\* each
DlmNeverResends ==
  /\ Len(d_sent) <= 2
  /\ Len(d_sent) = 2 => d_sent[1] # d_sent[2]

\* the response ra_dlm_transit received last
DlmLastRx == [ev |-> "rx", n |-> d_resp.n, bytes |-> d_resp.buf]

DlmFailsAfterBadResponse ==
  pc = "d_done" /\ Len(d_sent) >= 1 /\ ~IsAcknowledgement(DlmLastRx)
    => d_ret = -1

\* the handshake: the INQ frame goes out once; sync and confirm bytes are
\* sent again, up to max_tries times
OnlyHandshakeBytesRetried ==
  /\ o_tx.inq <= 1
  /\ o_tx.sync <= MAX_TRIES
  /\ o_tx.confirm <= MAX_TRIES

DlmFailsUnlessLckBoot ==
  pc = "d_done" /\ Len(d_sent) >= 1 /\ ~IsAcknowledgement(DlmLastRx)
    => \/ d_ret = -1
       \/ /\ Len(d_sent) = 2
          /\ d_dest = DLM_STATE_LCK_BOOT
          /\ d_resp.n < 7
          /\ d_ret = 0

FlashReceivedEach ==
  \A k \in 1..Len(f_log) : f_log[k].answer \in {"ok", "err", "short", "none"}

\* single-command operations: sends and receives alternate, a send first
CmdReceivedEach ==
  /\ Len(a_log) % 2 = 0
  /\ \A k \in 1..Len(a_log) :
       a_log[k].ev = (IF k % 2 = 1 THEN "tx" ELSE "rx")

C34_PackLengthLimits ==
  pc # "c_idle"
    => LET len == Len(c_in.data) IN
       /\ len > 1024 => c_pack = [ret |-> -1, errno |-> "EINVAL"]
       /\ len <= 1024 /\ c_in.cap < len + 6
            => c_pack = [ret |-> -1, errno |-> "ENOBUFS"]
       /\ len <= 1024 /\ c_in.cap >= len + 6
            => c_pack = [ret |-> len + 6, errno |-> ""]

\* 1024 data bytes packed into a buffer of exactly 1030 bytes
C34_Witness ==
  /\ pc = "c_packed"
  /\ Len(c_in.data) = 1024
  /\ c_in.cap = 1030
  /\ c_pack.ret = 1030

\* the array handed to unpack holds a whole response frame, SOD 0x81 and a
\* length field that matches the array, whose ETX byte or checksum is wrong
BadTrailer ==
  /\ pc = "c_unpacked"
  /\ c_buflen >= 6
  /\ c_buflen = Len(c_buf)
  /\ c_buf[1] = SOD_ACK
  /\ c_buf[2] * 256 + c_buf[3] = c_buflen - 5
  /\ \/ c_buf[c_buflen] # ETX
     \/ SumRange(c_buf, 2, c_buflen - 1) % 256 # 0

\* C39: a response frame whose ETX byte or checksum is invalid is reported
\* as a frame error (EPROTO, EBADMSG) and never as a device error, even when
\* bit 7 of its RES byte is set, and its payload is not handed to the
\* caller as an error report.
C39_BadTrailerIsFrameError ==
  BadTrailer
    => /\ c_un.ret < 0
       /\ c_un.errno \in {"EPROTO", "EBADMSG"}
       /\ ~c_un.mcu_error
       /\ c_un.data_len = 0


(***************************************************************************)
(* Further claims about the single-command operations, checked under       *)
(* SpecCmd                                                                 *)
(***************************************************************************)
\* the payload ra_unpack_pkt copies out of the response just received
CopiedLen == Len(ra_unpack_pkt(LastRx.bytes, LastRx.n, <<>>, 0, 0).data)

\* the data buffer each caller hands to ra_unpack_pkt
DataBufferAt ==
  [g_state |-> GET_DLM_DATA_SIZE, a_state |-> AUTH_RESP_DATA_SIZE,
   a_challenge |-> CHALLENGE_SIZE, a_final |-> AUTH_RESP_DATA_SIZE,
   i_state |-> DLM_RESP_DATA_SIZE, i_final |-> DLM_RESP_DATA_SIZE,
   r_signature |-> AREA_DATA_SIZE, r_loop |-> AREA_DATA_SIZE]

\* C37: wherever a response is about to be unpacked, the payload that
\* ra_unpack_pkt copies fits the data buffer of the caller
C37_UnpackFitsBuffer ==
  pc \in DOMAIN DataBufferAt => CopiedLen <= DataBufferAt[pc]

(***************************************************************************)
(* Further claims about the flash operations, checked under SpecFlash      *)
(***************************************************************************)
\* ra_verify of the file just written has returned
VerifyBackDone == pc = "f_done" /\ f_call.op = "verify" /\ f_w.done

\* C35: on a device that stores what it is sent, the verify of the file
\* that was just written at the same address does not fail on the content:
\* it returns 0 unless an exchange with the device failed
C35_VerifyAfterWrite ==
  VerifyBackDone /\ flash.keeps => f_ret.report = NoReport

(***************************************************************************)
(* Claims about data responses of any length, checked under SpecData       *)
(***************************************************************************)
\* some data response of the operation carried fewer bytes than requested
FewerAnswered == \E k \in 1..Len(f_log) : f_log[k].answer = "fewer"

\* C36: verify and blank-check return 0 only if every byte of the range was
\* received and examined: not after a data response with fewer bytes than
\* requested, not with a byte in the range that is not erased (blank-check)
\* or differs from the file or, behind the file, from 0xFF (verify)
C36_OkOnlyIfAllExamined ==
  /\ (VerifyEnded \/ BlankEnded) /\ f_ret.ret = 0 => ~FewerAnswered
  /\ BlankEnded /\ f_ret.ret = 0 => NotBlank = {}
  /\ VerifyEnded /\ f_ret.ret = 0 => Mismatches = {} /\ BeyondFile = {}

\* C38: ra_read never copies more bytes into its buffer than the
\* end - start + 1 bytes it allocated
C38_ReadWithinBuffer ==
  f_call.op = "read" /\ pc \in {"f_read", "f_done"} => Len(f_buf) <= f_loc.total

(***************************************************************************)
(* A claim about the opcode of the responses, checked under SpecCmd        *)
(***************************************************************************)
\* the k-th entry of the log is a response whose RES byte is not the
\* opcode of the request sent before it
ForeignResponse(k) ==
  /\ k > 1
  /\ a_log[k].ev = "rx"
  /\ a_log[k].n >= 7
  /\ a_log[k - 1].ev = "tx"
  /\ a_log[k].bytes[4] % STATUS_ERR # a_log[k - 1].bytes[4]

\* C40: an operation that returns 0 has accepted only responses that carry
\* the opcode of the request they answer
C40_ResponseMatchesRequest ==
  pc = "a_done" /\ a_ret = 0 => \A k \in 1..Len(a_log) : ~ForeignResponse(k)

(***************************************************************************)
(* Claims about a run of the tool, checked under SpecMain                  *)
(***************************************************************************)
\* the positions in the trace of the returns of function name
CallsOf(name) ==
  {k \in 1..Len(m_run.trace) :
     m_run.trace[k].ev = "call" /\ m_run.trace[k].name = name}

FirstOf(K) == CHOOSE k \in K : \A q \in K : k <= q

LastOf(K) == CHOOSE k \in K : \A q \in K : q <= k

\* raw-UART mode without -b
AutoMode == m_run.opt.uart_mode /\ m_run.opt.baudrate = 0

\* the run has gone on after position k: main has called the
\* authentication or the command, or is about to
GoesOnAfter(k) ==
  \/ pc \in {"m_auth", "m_action"}
  \/ \E q \in CallsOf("ra_authenticate") \cup CallsOf(m_run.opt.cmd) : q > k

\* C31: in raw-UART mode without -b, when ra_set_baudrate fails for the best
\* rate main calls it exactly once more, for 115200, and goes on with the
\* authentication and the command whatever that call returns; when it fails
\* too the host's port and dev->baudrate are at 9600.  When the best rate
\* succeeds there is no further call.
C31_OneFallback ==
  LET calls == CallsOf("ra_set_baudrate") IN
  AutoMode /\ pc \in {"m_rmb", "m_auth", "m_action", "m_exit"} /\ calls # {}
    => /\ m_run.trace[FirstOf(calls)].ret = 0 => Cardinality(calls) = 1
       /\ m_run.trace[FirstOf(calls)].ret < 0
            => /\ Cardinality(calls) = 2
               /\ m_run.trace[LastOf(calls)].arg = 115200
               /\ GoesOnAfter(LastOf(calls))
               /\ m_run.trace[LastOf(calls)].ret < 0
                    => a_dev.baudrate = 9600 /\ a_dev.speed = 9600

\* both attempts failed and the command was run and succeeded
C31_Witness ==
  /\ AutoMode
  /\ pc = "m_exit"
  /\ a_ret = EXIT_SUCCESS
  /\ Cardinality(CallsOf("ra_set_baudrate")) = 2
  /\ \A k \in CallsOf("ra_set_baudrate") : m_run.trace[k].ret < 0
  /\ m_run.trace[FirstOf(CallsOf("ra_set_baudrate"))].arg = 1000000
  /\ CallsOf(m_run.opt.cmd) # {}

\* the host has received the device's acknowledgement of a BAU request for
\* a rate above 9600
AckedAbove ==
  \E k \in 1..Len(m_run.trace) :
    /\ m_run.trace[k].ev = "rx"
    /\ m_run.trace[k].ret = 0
    /\ m_run.trace[k].arg > 9600

Closes == {k \in 1..Len(m_run.trace) : m_run.trace[k].ev = "close"}

\* C32: in raw-UART mode, when the device has acknowledged a change to a
\* rate above 9600, the event before the release of the handle is the
\* sending of a BAU request for 9600
C32_ResetOnClose ==
  m_run.opt.uart_mode /\ AckedAbove /\ Closes # {}
    => LET c == FirstOf(Closes) IN
       /\ c > 1
       /\ m_run.trace[c - 1].ev = "tx"
       /\ IsBauRequest(m_run.trace[c - 1].bytes)
       /\ PayloadOf(m_run.trace[c - 1].bytes) = uint32_to_be(9600)

\* the step of the run an event belongs to
StepOf(e) ==
  CASE e.ev = "exit" -> 7
    [] e.ev = "close" -> 6
    [] e.ev = "call" /\ e.name = "ra_open" -> 1
    [] e.ev = "call" /\ e.name \in {"ra_get_area_info", "ra_find_area_by_koa"} -> 2
    [] e.ev = "call" /\ e.name \in {"ra_get_device_max_baudrate",
                                    "ra_set_baudrate", "ra_get_rmb"} -> 3
    [] e.ev = "call" /\ e.name = "ra_authenticate" -> 4
    [] e.ev = "call" -> 5
    [] OTHER -> 0

\* C33: the steps of a run come in the order open, area map, baud rate,
\* authentication, command, close; the command is called only after
\* ra_get_area_info and, when an ID code was given, ra_authenticate have
\* returned 0; and a process that has opened the port ends only after
\* ra_close
C33_OrderAndClose ==
  LET t == m_run.trace
      steps == {k \in 1..Len(t) : StepOf(t[k]) > 0}
  IN  /\ \A i, j \in steps : i < j => StepOf(t[i]) <= StepOf(t[j])
      /\ \A k \in CallsOf(m_run.opt.cmd) :
           /\ \E i \in CallsOf("ra_get_area_info") : i < k /\ t[i].ret = 0
           /\ m_run.opt.use_auth
                => \E i \in CallsOf("ra_authenticate") : i < k /\ t[i].ret = 0
      /\ pc = "m_exit" /\ t[1].ret = 0
           => Closes # {} /\ LastOf(Closes) = Len(t) - 1

====
